---- MODULE Spec2Model ----
(***************************************************************************)
(* A model of the wzprof profiler: the CPU profiler's hooks and its        *)
(* StartProfile/StopProfile surface (src/cpu.go), the per-stack counter    *)
(* map and the pprof profile builder (src/unnamed/part_000).               *)
(***************************************************************************)
EXTENDS Integers, Sequences, FiniteSets, TLC

(***************************************************************************)
(* Bounds of the model.                                                    *)
(***************************************************************************)
\* guest calls made by the host threads altogether
MaxCalls == 2
\* StartProfile/StopProfile calls made by the controllers altogether
MaxCtl == 3

\* host threads on which the runtime invokes the listener hooks
Threads == {"t1", "t2"}
\* callers of StartProfile/StopProfile (HTTP handlers, the command line)
Controllers == {"c1", "c2"}

(***************************************************************************)
(* Functions, frames and stack traces.                                     *)
(***************************************************************************)
\* an InternalFunction, by what its Definition() reports
FnDef(module, index, name, gofunc) ==
    [module |-> module, index |-> index, name |-> name, host |-> gofunc]

FnG == FnDef("m", 1, "g", FALSE)
FnX == FnDef("m", 2, "x", FALSE)
FnH == FnDef("env", 0, "h", TRUE)

\* one element of a stack trace: stackTrace.fns[i], stackTrace.pcs[i]
stackFrame(fn, pc) == [fn |-> fn, pc |-> pc]

ZeroStackFrame == stackFrame(FnDef("", 0, "", FALSE), 0)

\* the stacks the runtime's stack iterator yields in the CPU model,
\* innermost frame first
StackG == << stackFrame(FnG, 5) >>
StackH == << stackFrame(FnH, 0), stackFrame(FnG, 5) >>
Stacks == {StackG, StackH}

Pcs(stack) == [i \in 1..Len(stack) |-> stack[i].pc]

\* stackTrace.bytes and maphash.Bytes: the hash covers the program counters
\* only; the 64-bit hash is taken to be collision free on the bytes it reads,
\* so the key is the sequence of program counters
HashKey(stack) == Pcs(stack)

\* stackTrace.host: the innermost frame is a host (Go) function
Host(stack) == Len(stack) > 0 /\ stack[1].fn.host

(***************************************************************************)
(* The heap of stack-trace buffers.  A stackTrace value holds two slices   *)
(* over backing arrays; a buffer models the pair of arrays, and a          *)
(* stackTrace is a reference to a buffer, a length and the key.            *)
(***************************************************************************)
ZeroTrace == [buf |-> 0, len |-> 0, key |-> << >>]

\* the sum of f over the set S
RECURSIVE Sum(_, _)
Sum(f, S) == IF S = {} THEN 0 ELSE LET x == CHOOSE y \in S : TRUE
                                   IN  f[x] + Sum(f, S \ {x})

Cap(h, tr) == IF tr.buf = 0 THEN 0 ELSE Len(h[tr.buf])

\* the frames a stackTrace value denotes
Deref(h, tr) == IF tr.buf = 0 THEN << >> ELSE SubSeq(h[tr.buf], 1, tr.len)

Alloc(h) == CHOOSE b \in 1..(Cardinality(DOMAIN h) + 1) : b \notin DOMAIN h

HeapPut(h, b, data) == [x \in DOMAIN h \cup {b} |-> IF x = b THEN data ELSE h[x]]

\* the capacity append() grows a slice of capacity c to, to hold n elements
RECURSIVE GrowCap(_, _)
GrowCap(c, n) == IF c >= n THEN c ELSE GrowCap(IF c = 0 THEN 1 ELSE 2 * c, n)

\* makeStackTrace: truncate the recycled trace and append the iterator's
\* frames one by one.  The first cap elements are written into the old
\* arrays in place; beyond the capacity append() moves to new arrays.
makeStackTrace(h, tr, stack) ==
    LET n == Len(stack)
        c == Cap(h, tr)
        inplace == [i \in 1..c |-> IF i <= n THEN stack[i] ELSE h[tr.buf][i]]
        h1 == IF tr.buf = 0 THEN h ELSE HeapPut(h, tr.buf, inplace)
    IN  IF n <= c
        THEN [heap |-> h1, trace |-> [buf |-> tr.buf, len |-> n, key |-> HashKey(stack)]]
        ELSE LET b == Alloc(h1)
                 data == [i \in 1..GrowCap(c, n) |->
                              IF i <= n THEN stack[i] ELSE ZeroStackFrame]
             IN  [heap |-> HeapPut(h1, b, data),
                  trace |-> [buf |-> b, len |-> n, key |-> HashKey(stack)]]

\* stackTrace.clone: new arrays holding a copy of the frames, same key
clone(h, tr) ==
    LET b == Alloc(h)
    IN  [heap |-> HeapPut(h, b, Deref(h, tr)),
         trace |-> [buf |-> b, len |-> tr.len, key |-> tr.key]]

(***************************************************************************)
(* The counter map: stackCounterMap, stackCounter.                         *)
(***************************************************************************)
EmptyMap == << >>

MapPut(m, k, v) == [x \in DOMAIN m \cup {k} |-> IF x = k THEN v ELSE m[x]]

MapDel(m, k) == [x \in DOMAIN m \ {k} |-> m[x]]

\* a nil map, and the non-nil empty map make(stackCounterMap) returns
NilMap == [nil |-> TRUE, m |-> EmptyMap]
MakeMap == [nil |-> FALSE, m |-> EmptyMap]

\* the variant of lookup that stores the caller's trace without cloning it
lookupNoClone(h, m, tr) ==
    IF tr.key \in DOMAIN m
    THEN [heap |-> h, m |-> m]
    ELSE [heap |-> h, m |-> MapPut(m, tr.key, [stack |-> tr, count |-> 0, total |-> 0])]

\* stackCounterMap.lookup: the counter under the trace's key, created with a
\* clone of the trace when absent
lookup(h, m, tr) ==
    IF tr.key \in DOMAIN m
    THEN [heap |-> h, m |-> m]
    ELSE LET c == clone(h, tr)
         IN  [heap |-> c.heap,
              m |-> MapPut(m, tr.key, [stack |-> c.trace, count |-> 0, total |-> 0])]

\* stackCounterMap.observe / stackCounter.observe
observe(h, m, tr, val) ==
    LET l == lookup(h, m, tr)
        sc == l.m[tr.key]
    IN  [heap |-> l.heap,
         m |-> MapPut(l.m, tr.key,
                      [sc EXCEPT !.count = sc.count + 1, !.total = sc.total + val])]

(***************************************************************************)
(* Host-frame elision: the loop of StopProfile over the detached map.      *)
(* Counters are held here with their stacks as values.                     *)
(***************************************************************************)
\* stackTrace.contains(other), from the host-elision rule: other's stack
\* fully contains the receiver's stack, as one contiguous run of frames
contains(st, other) ==
    \E o \in 0..(Len(other) - Len(st)) :
        \A i \in 1..Len(st) : other[o + i] = st[i]

\* stackCounter.subtract
subtract(sc, value) == [sc EXCEPT !.total = sc.total - value]

\* the variant of the loop body that adjusts the other counters but keeps
\* the host entry in the map
ElideVisitNoDelete(m, k) ==
    IF Host(m[k].stack)
    THEN [x \in DOMAIN m |->
             IF x # k /\ contains(m[k].stack, m[x].stack)
             THEN subtract(m[x], m[k].total)
             ELSE m[x]]
    ELSE m

\* one iteration of "for k, sample := range samples" in StopProfile
ElideVisit(m, k) ==
    IF Host(m[k].stack)
    THEN LET sample == m[k]
             rest == MapDel(m, k)
         IN  [x \in DOMAIN rest |->
                 IF contains(sample.stack, rest[x].stack)
                 THEN subtract(rest[x], sample.total)
                 ELSE rest[x]]
    ELSE m

\* the maps the whole loop can end with: a map is ranged over in an
\* unspecified order, and only the current entry is deleted on the way
RECURSIVE ElideFrom(_, _)
ElideFrom(m, todo) ==
    IF todo = {} THEN {m}
    ELSE UNION { ElideFrom(ElideVisit(m, k), todo \ {k}) : k \in todo }

ElideResults(m, hostTime) == IF hostTime THEN {m} ELSE ElideFrom(m, DOMAIN m)

(***************************************************************************)
(* The CPU profiler: state.                                                *)
(***************************************************************************)
VARIABLES
    mutex,      \* CPUProfiler.mutex: "" when free, else the holder
    counts,     \* CPUProfiler.counts
    start,      \* CPUProfiler.start
    host,       \* CPUProfiler.host
    frames,     \* CPUProfiler.frames
    traces,     \* CPUProfiler.traces
    heap,       \* the backing arrays of the stack traces
    clock,      \* the last value the clock returned
    pc,         \* where each host thread is in its hook
    loc,        \* the hooks' local variables, per host thread
    calls,      \* guest calls each host thread has entered
    depth,      \* guest calls each host thread has entered and not left
    cops,       \* StartProfile/StopProfile calls each controller has made
    ret,        \* what the last StartProfile/StopProfile call returned, and to whom
    running,    \* history: a StartProfile succeeded and no StopProfile followed
    started,    \* history: StartProfile calls that returned true
    handed,     \* history: StopProfile calls that returned a profile
    entered,    \* history: per host thread, the stack of its last Before and
                \* the number of the profile it found running (0: none);
                \* open: what the Before of each call not yet left found
                \* (profile number, time read, stack), outermost first; own: the
                \* same for the call whose After was entered last
    obs,        \* a counter map and its caller, observed on their own
    elide,      \* a detached counter map in StopProfile's elision loop
    build,      \* buildProfile at work on a counter map
    prep,       \* PrepareModule building the DWARF symbolizer
    look,       \* dwarfmapper.Lookup on an index
    wasmbin,    \* wasmbinSections on a module's bytes
    vmem,       \* a vmem and the CopyAtAddress calls made on it
    pclntab,   \* pclntabFromData on a data section
    codemap,   \* a codemap and the lookups made in it
    walk,       \* a goStackIterator walking a guest stack
    memprof,    \* the memory profiler's listener factory and hooks
    parse,      \* a dwarfparser reading the entries of a compile unit
    fncode,     \* parseFnCode on the body of a function
    readw,      \* a header word read from a vmem that is being filled
    names,      \* dwarfmapper.namesForSubprogram on an entry
    symb,       \* pclntabmapper.LocationsForSourceOffset on a code map
    adapter     \* lrtAdapter.Before of guest calls on a goStackIteratorMaker

cpuVars == << mutex, counts, start, host, frames, traces, heap, clock, pc, loc,
              calls, depth, cops, ret, running, started, handed, entered >>

\* the variables of the units that are modelled on their own
unitVars == << obs, elide, build, prep, look, wasmbin, vmem, pclntab, codemap,
              walk, memprof, parse, fncode, readw, names, symb, adapter >>

\* the symbolizers, the stack walker and the memory profiler, when they are
\* not the unit under study
libVars == << prep, look, wasmbin, vmem, pclntab, codemap, walk, memprof,
             parse, fncode, readw, names, symb, adapter >>

\* the units of the DWARF and pclntab symbolizers and of the listener adapter
\* that are studied last
laterVars == << parse, fncode, readw, names, symb, adapter >>

ZeroFrame == [start |-> 0, trace |-> ZeroTrace]

\* history of a guest call: the profile its Before found running (0: none),
\* the time its Before read (0: none) and the stack it was entered with
NoCall == [epoch |-> 0, start |-> 0, si |-> << >>]

ZeroLoc == [fr |-> ZeroFrame, i |-> 0, lfr |-> << >>, ltr |-> << >>, si |-> << >>]

NoRet == [by |-> "", op |-> "none", ok |-> FALSE, samples |-> EmptyMap, start |-> 0]

\* NewCPUProfiler
CpuInit ==
    /\ mutex = ""
    /\ counts = NilMap
    /\ start = 0
    /\ host \in BOOLEAN
    /\ frames = << >>
    /\ traces = << >>
    /\ heap = << >>
    /\ clock = 0
    /\ pc = [t \in Threads |-> "idle"]
    /\ loc = [t \in Threads |-> ZeroLoc]
    /\ calls = [t \in Threads |-> 0]
    /\ depth = [t \in Threads |-> 0]
    /\ cops = [c \in Controllers |-> 0]
    /\ ret = NoRet
    /\ running = FALSE
    /\ started = 0
    /\ handed = 0
    /\ entered = [t \in Threads |->
                     [epoch |-> 0, si |-> << >>, open |-> << >>, own |-> NoCall]]

\* the buffers some variable still refers to; the others are garbage
TraceRefs(s) == {s[i].buf : i \in DOMAIN s}

FrameRefs(s) == {s[i].trace.buf : i \in DOMAIN s}

Roots(tr, fr, lc, cm) ==
    TraceRefs(tr) \cup FrameRefs(fr)
    \cup UNION { {lc[t].fr.trace.buf} \cup FrameRefs(lc[t].lfr) \cup TraceRefs(lc[t].ltr)
                 : t \in Threads }
    \cup {cm.m[k].stack.buf : k \in DOMAIN cm.m}

Collect(h, roots) == [b \in DOMAIN h \cap roots |-> h[b]]

\* the counters with their stacks read out of the heap
DerefMap(h, m) ==
    [k \in DOMAIN m |->
        [stack |-> Deref(h, m[k].stack), count |-> m[k].count, total |-> m[k].total]]

(***************************************************************************)
(* The CPU profiler: the listener hooks, one action per atomic step.       *)
(***************************************************************************)
\* the next state of a hook step of thread t; garbage buffers are dropped
HookStep(t, npc, nloc, nmutex, ncounts, nframes, ntraces, nheap, nclock) ==
    /\ pc' = [pc EXCEPT ![t] = npc]
    /\ loc' = [loc EXCEPT ![t] = nloc]
    /\ mutex' = nmutex
    /\ counts' = ncounts
    /\ frames' = nframes
    /\ traces' = ntraces
    /\ clock' = nclock
    /\ heap' = Collect(nheap, Roots(ntraces, nframes, loc', ncounts))
    /\ UNCHANGED << start, host, cops, ret, running, started, handed >>
    /\ UNCHANGED unitVars

\* cpuListener.Before is entered with the stack iterator si: p.mutex.Lock()
BeforeLock(t) ==
    /\ pc[t] = "idle"
    /\ Sum(calls, Threads) < MaxCalls
    /\ mutex = ""
    /\ \E si \in Stacks :
          HookStep(t, "b_crit", [ZeroLoc EXCEPT !.si = si], t, counts, frames,
                   traces, heap, clock)
    /\ calls' = [calls EXCEPT ![t] = calls[t] + 1]
    /\ UNCHANGED << depth, entered >>

\* Before, under the mutex: the test of p.counts, start := p.time(), and the
\* read of the last recycled trace; with no profile running, p.mutex.Unlock()
BeforeCrit(t) ==
    /\ pc[t] = "b_crit"
    /\ IF counts.nil
       THEN HookStep(t, "b_push", loc[t], "", counts, frames, traces, heap, clock)
       ELSE LET i == Len(traces)
                trace == IF i > 0 THEN traces[i] ELSE ZeroTrace
            IN  HookStep(t, "b_make",
                         [loc[t] EXCEPT !.fr = [start |-> clock + 1, trace |-> trace],
                                        !.i = i],
                         mutex, counts, frames, traces, heap, clock + 1)
    /\ entered' = [entered EXCEPT ![t].epoch = IF counts.nil THEN 0 ELSE started,
                                  ![t].si = loc[t].si]
    /\ UNCHANGED << calls, depth >>

\* Before, under the mutex: p.traces = p.traces[:i], makeStackTrace, and
\* p.mutex.Unlock()
BeforeMake(t) ==
    /\ pc[t] = "b_make"
    /\ LET i == loc[t].i
           ntraces == IF i > 0 THEN SubSeq(traces, 1, i - 1) ELSE traces
           made == makeStackTrace(heap, loc[t].fr.trace, loc[t].si)
       IN  HookStep(t, "b_push",
                    [loc[t] EXCEPT !.fr.trace = made.trace],
                    "", counts, frames, ntraces, made.heap, clock)
    /\ UNCHANGED << calls, depth, entered >>

\* Before, after the unlock: the read of p.frames in append(p.frames, frame)
BeforePushRead(t) ==
    /\ pc[t] = "b_push"
    /\ HookStep(t, "b_store", [loc[t] EXCEPT !.lfr = frames], mutex, counts,
                frames, traces, heap, clock)
    /\ UNCHANGED << calls, depth, entered >>

\* the variant of the store that keeps the frame only when a profile was
\* running
BeforePushWriteRunning(t) ==
    /\ pc[t] = "b_store"
    /\ HookStep(t, "idle", ZeroLoc, mutex, counts,
                IF loc[t].fr.start # 0 THEN Append(loc[t].lfr, loc[t].fr)
                                       ELSE loc[t].lfr,
                traces, heap, clock)
    /\ depth' = [depth EXCEPT ![t] = depth[t] + 1]
    /\ entered' = [entered EXCEPT ![t].open =
                      Append(@, [epoch |-> entered[t].epoch,
                                 start |-> loc[t].fr.start,
                                 si |-> entered[t].si])]
    /\ UNCHANGED calls

\* Before, after the unlock: the store p.frames = append(...), and return
BeforePushWrite(t) ==
    /\ pc[t] = "b_store"
    /\ HookStep(t, "idle", ZeroLoc, mutex, counts,
                Append(loc[t].lfr, loc[t].fr), traces, heap, clock)
    /\ depth' = [depth EXCEPT ![t] = depth[t] + 1]
    /\ entered' = [entered EXCEPT ![t].open =
                      Append(@, [epoch |-> entered[t].epoch,
                                 start |-> loc[t].fr.start,
                                 si |-> entered[t].si])]
    /\ UNCHANGED calls

\* cpuListener.After is entered: i := len(p.frames) - 1; f := p.frames[i].
\* With no frame left the index is out of range and the hook panics.
AfterPopRead(t) ==
    /\ pc[t] = "idle"
    /\ depth[t] > 0
    /\ LET i == Len(frames) - 1
       IN  IF i < 0
           THEN HookStep(t, "panic", ZeroLoc, mutex, counts, frames, traces, heap, clock)
           ELSE HookStep(t, "a_store", [ZeroLoc EXCEPT !.i = i, !.fr = frames[i + 1]],
                         mutex, counts, frames, traces, heap, clock)
    /\ depth' = [depth EXCEPT ![t] = depth[t] - 1]
    /\ entered' = [entered EXCEPT ![t].own = entered[t].open[depth[t]],
                                  ![t].open = SubSeq(@, 1, depth[t] - 1)]
    /\ UNCHANGED calls

\* what a slot of the frames array beyond its length may still hold
StaleFrames == {ZeroFrame} \cup {loc[u].fr : u \in Threads}

\* After: p.frames = p.frames[:i].  When the slice has meanwhile become
\* shorter than i the expression reaches into the array's spare capacity
\* (stale frames reappear) or panics.  A frame with start = 0 ends the hook.
AfterPopWrite(t) ==
    /\ pc[t] = "a_store"
    /\ LET i == loc[t].i
           npc == IF loc[t].fr.start # 0 THEN "a_lock" ELSE "idle"
           nloc == IF loc[t].fr.start # 0 THEN loc[t] ELSE ZeroLoc
       IN  IF i <= Len(frames)
           THEN HookStep(t, npc, nloc, mutex, counts, SubSeq(frames, 1, i),
                         traces, heap, clock)
           ELSE \/ HookStep(t, "panic", ZeroLoc, mutex, counts, frames, traces,
                            heap, clock)
                \/ \E st \in StaleFrames :
                      HookStep(t, npc, nloc, mutex, counts,
                               frames \o [j \in 1..(i - Len(frames)) |-> st],
                               traces, heap, clock)
    /\ UNCHANGED << calls, depth, entered >>

\* After, f.start != 0: p.mutex.Lock()
AfterLock(t) ==
    /\ pc[t] = "a_lock"
    /\ mutex = ""
    /\ HookStep(t, "a_obs", loc[t], t, counts, frames, traces, heap, clock)
    /\ UNCHANGED << calls, depth, entered >>

\* After, under the mutex: p.counts.observe(f.trace, p.time()-f.start) when a
\* profile is running, and p.mutex.Unlock()
AfterObserve(t) ==
    /\ pc[t] = "a_obs"
    /\ IF counts.nil
       THEN HookStep(t, "a_recycle", loc[t], "", counts, frames, traces, heap, clock)
       ELSE LET o == observe(heap, counts.m, loc[t].fr.trace,
                             (clock + 1) - loc[t].fr.start)
            IN  HookStep(t, "a_recycle", loc[t], "", [nil |-> FALSE, m |-> o.m],
                         frames, traces, o.heap, clock + 1)
    /\ UNCHANGED << calls, depth, entered >>

\* After, after the unlock: the read of p.traces in append(p.traces, f.trace)
AfterRecycleRead(t) ==
    /\ pc[t] = "a_recycle"
    /\ HookStep(t, "a_keep", [loc[t] EXCEPT !.ltr = traces], mutex, counts,
                frames, traces, heap, clock)
    /\ UNCHANGED << calls, depth, entered >>

\* After, after the unlock: the store p.traces = append(...), and return
AfterRecycleWrite(t) ==
    /\ pc[t] = "a_keep"
    /\ HookStep(t, "idle", ZeroLoc, mutex, counts, frames,
                Append(loc[t].ltr, loc[t].fr.trace), heap, clock)
    /\ UNCHANGED << calls, depth, entered >>

(***************************************************************************)
(* The CPU profiler: StartProfile and StopProfile.                         *)
(***************************************************************************)
\* the part of a controller's call that is the same for both calls; the
\* section under the mutex is one step, taken when the mutex is free
CtlCall(c, ncounts) ==
    /\ Sum(cops, Controllers) < MaxCtl
    /\ mutex = ""
    /\ cops' = [cops EXCEPT ![c] = cops[c] + 1]
    /\ counts' = ncounts
    /\ heap' = Collect(heap, Roots(traces, frames, loc, ncounts))
    /\ UNCHANGED << mutex, host, frames, traces, clock, pc, loc, calls, depth, entered >>
    /\ UNCHANGED unitVars

\* the variant of StartProfile without the test of p.counts
StartProfileNoTest(c) ==
    /\ CtlCall(c, MakeMap)
    /\ start' = clock
    /\ ret' = [NoRet EXCEPT !.by = c, !.op = "start", !.ok = TRUE]
    /\ running' = TRUE
    /\ started' = started + 1
    /\ UNCHANGED handed

\* StartProfile: lock; false when p.counts is set, else a new map and the
\* start time; the deferred unlock
StartProfile(c) ==
    /\ CtlCall(c, IF ~counts.nil THEN counts ELSE MakeMap)
    /\ IF ~counts.nil
       THEN /\ ret' = [NoRet EXCEPT !.by = c, !.op = "start", !.ok = FALSE]
            /\ UNCHANGED << start, running, started >>
       ELSE /\ start' = clock
            /\ ret' = [NoRet EXCEPT !.by = c, !.op = "start", !.ok = TRUE]
            /\ running' = TRUE
            /\ started' = started + 1
    /\ UNCHANGED handed

\* the variant of StopProfile that leaves p.counts set
StopProfileKeep(c) ==
    /\ CtlCall(c, counts)
    /\ IF counts.nil
       THEN /\ ret' = [NoRet EXCEPT !.by = c, !.op = "stop", !.ok = FALSE]
            /\ UNCHANGED handed
       ELSE /\ \E res \in ElideResults(DerefMap(heap, counts.m), host) :
                  ret' = [by |-> c, op |-> "stop", ok |-> TRUE,
                          samples |-> res, start |-> start]
            /\ handed' = handed + 1
    /\ running' = FALSE
    /\ UNCHANGED << start, started >>

\* StopProfile: under the mutex the map and the start time are taken and
\* p.counts is reset; after the unlock, nil for a nil map, else the host
\* frames are elided and the profile is built from what is left (ok = FALSE
\* stands for the nil profile; the conversion to pprof is BuildProfile's)
StopProfile(c) ==
    /\ CtlCall(c, NilMap)
    /\ IF counts.nil
       THEN /\ ret' = [NoRet EXCEPT !.by = c, !.op = "stop", !.ok = FALSE]
            /\ UNCHANGED handed
       ELSE /\ \E res \in ElideResults(DerefMap(heap, counts.m), host) :
                  ret' = [by |-> c, op |-> "stop", ok |-> TRUE,
                          samples |-> res, start |-> start]
            /\ handed' = handed + 1
    /\ running' = FALSE
    /\ UNCHANGED << start, started >>

\* the steps of the profiler with the hooks invoked on the host threads T
CpuNext(T) ==
    \/ \E t \in T :
          \/ BeforeLock(t)
          \/ BeforeCrit(t)
          \/ BeforeMake(t)
          \/ BeforePushRead(t)
          \/ BeforePushWrite(t)
          \/ AfterPopRead(t)
          \/ AfterPopWrite(t)
          \/ AfterLock(t)
          \/ AfterObserve(t)
          \/ AfterRecycleRead(t)
          \/ AfterRecycleWrite(t)
    \/ \E c \in Controllers :
          \/ StartProfile(c)
          \/ StopProfile(c)

\* the units modelled on their own are not in use
ObsIdle == [counts |-> EmptyMap, heap |-> << >>, buf |-> ZeroTrace, seen |-> << >>, n |-> 0]
ElideIdle == [m |-> EmptyMap, todo |-> {}, m0 |-> EmptyMap, gone |-> EmptyMap]
BuildIdle ==
    [on |-> FALSE, sym |-> << >>, samples |-> EmptyMap, todo |-> {},
     locationID |-> 1, locationCache |-> EmptyMap, locs |-> << >>,
     functionCache |-> EmptyMap, funs |-> << >>, Sample |-> << >>,
     trail |-> << >>, Location |-> << >>, Function |-> << >>,
     done |-> FALSE, failed |-> FALSE]

Idle == [on |-> FALSE]

LaterIdle ==
    /\ parse = Idle /\ fncode = Idle /\ readw = Idle /\ names = Idle
    /\ symb = Idle /\ adapter = Idle

LibIdle ==
    /\ prep = Idle /\ look = Idle /\ wasmbin = Idle /\ vmem = Idle
    /\ pclntab = Idle /\ codemap = Idle /\ walk = Idle /\ memprof = Idle
    /\ LaterIdle

Init == CpuInit /\ obs = ObsIdle /\ elide = ElideIdle /\ build = BuildIdle /\ LibIdle

\* guest calls on two host threads at once, and two controllers
Next == CpuNext(Threads)

vars == << cpuVars, unitVars >>

Spec == Init /\ [][Next]_vars

\* guest calls, nested, on one host thread, and two controllers
NextSeq == CpuNext({"t1"})

SpecSeq == Init /\ [][NextSeq]_vars

(***************************************************************************)
(* Properties of the CPU profiler.                                         *)
(***************************************************************************)
\* a step in which controller calls StartProfile / StopProfile return
StartReturns == cops' # cops /\ ret'.op = "start"
StopReturns == cops' # cops /\ ret'.op = "stop"

\* C1: StartProfile returns true when no profile is running and false when
\* one is running; a rejected StartProfile leaves the counter map and the
\* start time as they were; StopProfile leaves no profile running, so the
\* StartProfile that follows it returns true again.
C1_StartProfileBusy ==
    [][ /\ StartReturns =>
            /\ ret'.ok = ~running
            /\ running => (counts' = counts /\ start' = start /\ ~ret'.ok)
            /\ ~running => (counts' = MakeMap /\ ret'.ok)
        /\ StopReturns => ~running'
      ]_vars

\* C1 witness: with a profile running and a counter recorded in it, a
\* StartProfile has just been rejected
C1_Witness ==
    /\ ret.op = "start" /\ ~ret.ok
    /\ started = 1 /\ handed = 0
    /\ DOMAIN counts.m # {}
    /\ start # clock

\* C2: StopProfile returns nil exactly when no profile is running at the
\* call; otherwise it returns a profile and leaves the profiler not running;
\* profiles handed out never outnumber the profiles started.
C2_StopProfileOnce ==
    [][ /\ StopReturns =>
            /\ ret'.ok = running
            /\ ret'.ok = ~counts.nil
            /\ counts'.nil
            /\ handed' = handed + (IF running THEN 1 ELSE 0)
        /\ handed' <= started'
      ]_vars

\* C2 witness: one profile was started and handed out by one controller,
\* and a further StopProfile, by the other controller, has just returned nil
C2_Witness ==
    /\ ret.op = "stop" /\ ~ret.ok
    /\ started = 1 /\ handed = 1
    /\ \E c \in Controllers : cops[c] = 1 /\ ret.by = c

\* both host threads have made one guest call each, with the same stack,
\* both Before hooks found profile 1 running, it is still running, and no
\* hook is in progress any more
TwoCallsSameStack ==
    /\ started = 1 /\ handed = 0
    /\ \A t \in Threads :
          /\ calls[t] = 1
          /\ entered[t].epoch = 1
          /\ pc[t] \in {"idle", "panic"}
          /\ pc[t] = "idle" => depth[t] = 0
    /\ \A t, u \in Threads : entered[t].si = entered[u].si

\* C3: two guest calls on different host threads with the same stack trace,
\* each running Before and then After while a profile runs, leave exactly
\* one counter for that stack, with count = 2.
C3_TwoCallsOneCounter ==
    TwoCallsSameStack =>
        \E k \in DOMAIN counts.m :
            /\ DOMAIN counts.m = {k}
            /\ counts.m[k].count = 2

\* the same, for the runs in which no hook panics
C3_NoPanicOneCounter ==
    (TwoCallsSameStack /\ \A t \in Threads : pc[t] = "idle") =>
        \E k \in DOMAIN counts.m :
            /\ DOMAIN counts.m = {k}
            /\ counts.m[k].count = 2

\* the shared fields of the profiler that the step of a hook from label p
\* to label q reads or writes (cpuListener.Before / After)
SharedAccess(p, q) ==
    CASE p = "b_crit"    -> {"counts", "traces"}
      [] p = "b_make"    -> {"traces"}
      [] p = "b_push"    -> {"frames"}
      [] p = "b_store"   -> {"frames"}
      [] p = "idle" /\ q \in {"a_store", "panic"} -> {"frames"}
      [] p = "a_store"   -> {"frames"}
      [] p = "a_obs"     -> {"counts"}
      [] p = "a_recycle" -> {"traces"}
      [] p = "a_keep"    -> {"traces"}
      [] OTHER           -> {}

\* C4: every read and every write of the counter map, of frames and of
\* traces by a hook happens while the hook's thread holds the mutex.
C4_SharedStateUnderMutex ==
    [][ \A t \in Threads :
           (pc'[t] # pc[t] /\ SharedAccess(pc[t], pc'[t]) # {}) => mutex = t
      ]_vars

\* a step in which the After hook of thread t records an observation
Observes(t) == pc[t] = "a_obs" /\ pc'[t] = "a_recycle" /\ counts' # counts

\* the value that a step adds to the total of the counter under key k
Charged(k) ==
    counts'.m[k].total - (IF k \in DOMAIN counts.m THEN counts.m[k].total ELSE 0)

\* C26: a guest call is charged only to the profile that was running when
\* its Before ran: a call whose Before found no profile running is never
\* counted, a call whose After runs after StopProfile is not counted in the
\* stopped profile, and a call whose Before ran during one profile and whose
\* After runs during a later one adds no count and no time to the later one.
C26_ChargedToOwnProfile ==
    [][ \A t \in Threads :
           /\ pc'[t] # pc[t] => ret' = ret
           /\ Observes(t) => entered[t].own.epoch = started
      ]_vars

\* a call whose Before found no profile running is never counted, and no
\* hook changes the counters of a profile that StopProfile has returned
C26_NotCountedOutside ==
    [][ \A t \in Threads :
           /\ pc'[t] # pc[t] => ret' = ret
           /\ Observes(t) => (entered[t].own.epoch # 0 /\ ~counts.nil)
           /\ (pc[t] = "a_obs" /\ counts.nil) => counts' = counts
      ]_vars

\* C27: with the hooks of nested guest calls on one host thread, interleaved
\* with StartProfile and StopProfile, the frame stack is as deep as the
\* number of calls that have had Before and not yet After (a frame is pushed
\* also when no profile is running); After never pops an empty stack, pops
\* the frame pushed by its own call's Before, and charges the time it reads
\* minus that call's own start time.
C27_FrameStackDepth ==
    [][ LET t == "t1"
            own == entered'[t].own
        IN  /\ pc'[t] # "panic"
            /\ Len(frames') = depth'[t] + (IF pc'[t] = "a_store" THEN 1 ELSE 0)
            /\ pc'[t] # "a_store" =>
                   \A i \in 1..Len(frames') :
                      frames'[i].start = entered'[t].open[i].start
            /\ pc'[t] \in {"a_store", "a_lock", "a_obs"} =>
                   /\ loc'[t].fr.start = own.start
                   /\ own.start # 0 => Deref(heap', loc'[t].fr.trace) = own.si
            /\ Observes(t) =>
                   Charged(loc[t].fr.trace.key) = clock' - entered[t].own.start
      ]_vars

\* C27 witness: the outer call was entered with no profile running and its
\* zero frame is on the stack; the inner call, entered after StartProfile,
\* has just been charged by its After
C27_Witness ==
    /\ pc["t1"] = "a_recycle"
    /\ depth["t1"] = 1
    /\ Len(frames) = 1 /\ frames[1].start = 0
    /\ entered["t1"].own.start # 0
    /\ ~counts.nil /\ DOMAIN counts.m # {}

(***************************************************************************)
(* The counter map on its own: a caller that fills one recycled trace      *)
(* buffer from the stack iterator (as Before does) and observes it (as     *)
(* After does).                                                            *)
(***************************************************************************)
\* observations made in one run
MaxObs == 3

StackX == << stackFrame(FnX, 7), stackFrame(FnG, 5) >>

\* the PCs of StackX, in other functions
StackGG == << stackFrame(FnG, 7), stackFrame(FnG, 5) >>

\* the stacks the iterator yields, and the values observed
ObsStacks == {StackG, StackH, StackX, StackGG}
ObsValues == {1, 3}

ObsInit ==
    /\ CpuInit /\ host = FALSE /\ LibIdle
    /\ obs = [counts |-> EmptyMap, heap |-> << >>, buf |-> ZeroTrace,
              seen |-> << >>, n |-> 0]
    /\ elide = ElideIdle
    /\ build = BuildIdle

ObsRoots(buf, m) == {buf.buf} \cup {m[k].stack.buf : k \in DOMAIN m}

\* the caller refills its trace: makeStackTrace(trace, si)
ObsFill ==
    /\ \E si \in ObsStacks :
          LET made == makeStackTrace(obs.heap, obs.buf, si)
          IN  obs' = [obs EXCEPT !.buf = made.trace,
                                 !.heap = Collect(made.heap,
                                                  ObsRoots(made.trace, obs.counts))]
    /\ UNCHANGED << cpuVars, elide, build, libVars >>

\* the caller observes its trace: scm.observe(trace, val); seen is the
\* history of what was observed, per key
ObsObserve ==
    /\ obs.buf.buf # 0
    /\ obs.n < MaxObs
    /\ \E val \in ObsValues :
          LET o == observe(obs.heap, obs.counts, obs.buf, val)
              k == obs.buf.key
              old == IF k \in DOMAIN obs.seen THEN obs.seen[k]
                     ELSE [stack |-> Deref(obs.heap, obs.buf), n |-> 0, sum |-> 0]
          IN  obs' = [obs EXCEPT !.counts = o.m,
                                 !.heap = Collect(o.heap, ObsRoots(obs.buf, o.m)),
                                 !.seen = MapPut(obs.seen, k,
                                                 [old EXCEPT !.n = old.n + 1,
                                                             !.sum = old.sum + val]),
                                 !.n = obs.n + 1]
    /\ UNCHANGED << cpuVars, elide, build, libVars >>

NextObserve == ObsFill \/ ObsObserve

SpecObserve == ObsInit /\ [][NextObserve]_vars

\* C5: observe adds 1 to count and the value to total on the counter under
\* the stack's hash and creates it with a clone of the stack: after N
\* observations of a stack the map holds one counter for it with count = N
\* and total = the sum of the values, whose stack is the observed one
\* whatever the caller has written to its buffer since.
C5_ObserveAccumulates ==
    /\ DOMAIN obs.counts = DOMAIN obs.seen
    /\ \A k \in DOMAIN obs.seen :
          /\ obs.counts[k].count = obs.seen[k].n
          /\ obs.counts[k].total = obs.seen[k].sum
          /\ Deref(obs.heap, obs.counts[k].stack) = obs.seen[k].stack
          /\ HashKey(Deref(obs.heap, obs.counts[k].stack)) = k
          /\ obs.counts[k].stack.buf # obs.buf.buf

\* C5 witness: a stack was observed MaxObs times with different values and
\* the caller's buffer, overwritten in place, now holds another stack
C5_Witness ==
    \E k \in DOMAIN obs.seen :
        /\ obs.seen[k].n = MaxObs
        /\ obs.seen[k].sum > MaxObs
        /\ obs.buf.len = Len(obs.seen[k].stack)
        /\ Deref(obs.heap, obs.buf) # obs.seen[k].stack

\* a step in which the caller's trace is observed in a counter that the map
\* already holds
ObservedInOld ==
    /\ obs'.n # obs.n
    /\ obs.buf.key \in DOMAIN obs.counts

\* C28: two observed stack traces are accumulated in the same counter only
\* if they have the same sequence of functions as well as the same sequence
\* of PCs: stacks with the same PCs and another function on some frame are
\* never merged into one counter.
C28_SameCounterSameStack ==
    [][ ObservedInOld =>
           Deref(obs.heap, obs.counts[obs.buf.key].stack) = Deref(obs.heap, obs.buf)
      ]_vars

\* two observed stack traces are accumulated in the same counter only if
\* they have the same sequence of PCs
C28_SameCounterSamePCs ==
    [][ ObservedInOld =>
           Pcs(Deref(obs.heap, obs.counts[obs.buf.key].stack))
               = Pcs(Deref(obs.heap, obs.buf))
      ]_vars

(***************************************************************************)
(* The elision loop of StopProfile on its own, one action per iteration    *)
(* of the range over the samples.                                          *)
(***************************************************************************)
\* the largest total of a recorded counter
MaxTotal == 2

StackXH == << stackFrame(FnX, 7), stackFrame(FnH, 0), stackFrame(FnG, 5) >>
StackHXH == << stackFrame(FnH, 0), stackFrame(FnX, 7), stackFrame(FnH, 0),
               stackFrame(FnG, 5) >>

StackXHXH == << stackFrame(FnX, 7), stackFrame(FnH, 0), stackFrame(FnX, 7),
                stackFrame(FnH, 0), stackFrame(FnG, 5) >>

\* the stacks of the recorded counters: guest and host stacks, with and
\* without StackH among their frames
ElideStacks == {StackG, StackH, StackXH, StackHXH, StackXHXH}

\* the counter maps StopProfile can find in p.counts, by value
ElideMaps ==
    UNION { { [k \in {HashKey(st) : st \in S} |->
                 [stack |-> CHOOSE st \in S : HashKey(st) = k,
                  count |-> 1,
                  total |-> tot[k]]] :
              tot \in [{HashKey(st) : st \in S} -> 1..MaxTotal] } :
            S \in SUBSET ElideStacks }

ElideInit ==
    /\ CpuInit /\ host = FALSE /\ LibIdle
    /\ obs = ObsIdle
    /\ \E m \in ElideMaps :
          elide = [m |-> m, todo |-> DOMAIN m, m0 |-> m, gone |-> EmptyMap]
    /\ build = BuildIdle

\* one iteration of the range in StopProfile: the range yields any entry it
\* has not yet produced; gone is the history of the entries deleted, with
\* their totals at that time
ElideRange ==
    /\ ~host
    /\ \E k \in elide.todo :
          elide' = [elide EXCEPT
                       !.m = ElideVisit(elide.m, k),
                       !.todo = elide.todo \ {k},
                       !.gone = IF Host(elide.m[k].stack)
                                THEN MapPut(elide.gone, k, elide.m[k].total)
                                ELSE elide.gone]
    /\ UNCHANGED << cpuVars, obs, build, libVars >>

NextElide == ElideRange

SpecElide == ElideInit /\ [][NextElide]_vars

\* the totals of the deleted entries whose stack the stack st contains
ElidedFrom(st) ==
    Sum(elide.gone,
        {h \in DOMAIN elide.gone : contains(elide.m0[h].stack, st)})

\* C6: with host time disabled StopProfile removes every counter whose
\* innermost frame is a host function and subtracts the removed entry's
\* total from every other counter whose stack contains the host stack; a
\* counter whose stack contains no removed host stack keeps its total.
C6_HostElision ==
    /\ DOMAIN elide.m = DOMAIN elide.m0 \ DOMAIN elide.gone
    /\ \A h \in DOMAIN elide.gone : Host(elide.m0[h].stack)
    /\ elide.todo = {} => \A k \in DOMAIN elide.m : ~Host(elide.m[k].stack)
    /\ \A x \in DOMAIN elide.m :
          /\ elide.m[x].stack = elide.m0[x].stack
          /\ elide.m[x].count = elide.m0[x].count
          /\ elide.m[x].total = elide.m0[x].total - ElidedFrom(elide.m0[x].stack)

\* C6 witness: the loop has ended on a map that held a host stack, a guest
\* stack containing it and a guest stack not containing it
C6_Witness ==
    /\ elide.todo = {}
    /\ DOMAIN elide.m0 = {HashKey(StackG), HashKey(StackH), HashKey(StackXH)}
    /\ DOMAIN elide.m = {HashKey(StackG), HashKey(StackXH)}
    /\ elide.m[HashKey(StackXH)].total =
          elide.m0[HashKey(StackXH)].total - elide.m0[HashKey(StackH)].total
    /\ elide.m[HashKey(StackG)].total = elide.m0[HashKey(StackG)].total

\* the host-innermost stacks of the recorded counters
HostStacks(m) == {m[k].stack : k \in {x \in DOMAIN m : Host(m[x].stack)}}

\* C25: with host time disabled the counters StopProfile emits do not depend
\* on the order in which the counter map is ranged over: whatever the
\* recorded counters, a host-innermost stack contained in another one
\* included, every order ends with the same totals for the guest counters.
C25_OrderIndependent ==
    elide.todo = {} =>
        \A r \in ElideResults(elide.m0, host) : r = elide.m

\* when no host-innermost stack of the map is contained in another one,
\* every order of the range ends with the same counters
C25_OrderIndependentApart ==
    (/\ elide.todo = {}
     /\ \A a, b \in HostStacks(elide.m0) : a # b => ~contains(a, b))
    => \A r \in ElideResults(elide.m0, host) : r = elide.m

\* the loop has ended on a map whose one host-innermost stack is contained
\* in a guest stack, which is left with the difference
C25_ApartWitness ==
    /\ elide.todo = {}
    /\ HostStacks(elide.m0) = {StackHXH}
    /\ HashKey(StackXHXH) \in DOMAIN elide.m

(***************************************************************************)
(* The pprof profile builder on its own: buildProfile ranging over a       *)
(* counter map, one action per sample, and the filling of the tables.      *)
(* profile.Location and profile.Function objects live in the sequences     *)
(* locs and funs; a pointer to one is its index there.  ScaleN, which       *)
(* rescales the sample values, belongs to the pprof library and is left    *)
(* out.                                                                    *)
(***************************************************************************)
\* the most entries of a counter map
MaxSamples == 3

\* Location, as a Symbolizer returns it
Location(file, line, stable, human) ==
    [File |-> file, Line |-> line, StableName |-> stable, HumanName |-> human]

ZeroLocation == Location("", 0, "", "")

LocG == Location("g.c", 10, "g", "G")
LocX == Location("x.c", 20, "x", "X")
LocAnon == Location("a.c", 30, "", "")

\* what a Symbolizer answers for one frame: nothing, the function, the
\* function and the one it is inlined in, or a line without names
SymLists == { << >>, << LocG >>, << LocX, LocG >>, << LocAnon >> }

StackG7 == << stackFrame(FnG, 7), stackFrame(FnX, 7) >>

BuildStacks == {StackG, StackH, StackX, StackG7}

\* the frames a Symbolizer is asked about: those whose pc is not zero
SymKeys ==
    UNION { { << st[i].fn.name, st[i].pc >> :
              i \in {j \in 1..Len(st) : st[j].pc > 0} } :
            st \in BuildStacks }

Symbolizers == [SymKeys -> SymLists]

noopsymbolizer == [k \in SymKeys |-> << >>]

\* Symbolizer.Locations
Locations(sym, fn, at) ==
    LET k == << fn.name, at >>
        l == IF k \in DOMAIN sym THEN sym[k] ELSE << >>
    IN  [addr |-> IF l = << >> THEN 0 ELSE at, locs |-> l]

makeLocationKeyNoPc(fn, at) ==
    [module |-> fn.module, index |-> fn.index, name |-> fn.name, pc |-> 0]

makeLocationKey(fn, at) ==
    [module |-> fn.module, index |-> fn.index, name |-> fn.name, pc |-> at]

\* locationForCall: no defaults for the names of the first location
defaultNamesNone(locations, name) == locations

\* locationForCall: the names of the first location default to the
\* function's declared name
defaultNames(locations, name) ==
    [locations EXCEPT
        ![1].StableName = IF @ = "" THEN name ELSE @,
        ![1].HumanName = IF @ = "" THEN name ELSE @]

\* locationForCall: the function of a location is only ever created
pprofFnNoPatch(funs, cache, l, symbolFound) ==
    IF l.StableName \notin DOMAIN cache
    THEN [funs |-> Append(funs, [ID |-> Cardinality(DOMAIN cache) + 1,
                                 Name |-> l.HumanName,
                                 SystemName |-> l.StableName,
                                 Filename |-> l.File]),
          cache |-> MapPut(cache, l.StableName, Len(funs) + 1)]
    ELSE [funs |-> funs, cache |-> cache]

\* locationForCall: the function of a location, created or patched
pprofFn(funs, cache, l, symbolFound) ==
    IF l.StableName \notin DOMAIN cache
    THEN [funs |-> Append(funs, [ID |-> Cardinality(DOMAIN cache) + 1,
                                 Name |-> l.HumanName,
                                 SystemName |-> l.StableName,
                                 Filename |-> l.File]),
          cache |-> MapPut(cache, l.StableName, Len(funs) + 1)]
    ELSE IF symbolFound
    THEN [funs |-> [funs EXCEPT ![cache[l.StableName]] =
                       [@ EXCEPT !.Name = l.HumanName,
                                 !.SystemName = l.StableName,
                                 !.Filename = l.File]],
          cache |-> cache]
    ELSE [funs |-> funs, cache |-> cache]

\* locationForCall: lines filled in the order of the locations
lineIndexForward(n, i) == i

\* locationForCall: the place in lines of the i-th of n locations
lineIndex(n, i) == n - (i - 1)

ZeroLine == [Function |-> 0, Line |-> 0]

\* locationForCall: the loop over the locations, from the i-th on
RECURSIVE fillLines(_, _, _, _, _, _)
fillLines(locations, i, symbolFound, funs, cache, lines) ==
    IF i > Len(locations)
    THEN [lines |-> lines, funs |-> funs, cache |-> cache]
    ELSE LET l == locations[i]
             f == pprofFn(funs, cache, l, symbolFound)
         IN  fillLines(locations, i + 1, symbolFound, f.funs, f.cache,
                       [lines EXCEPT ![lineIndex(Len(locations), i)] =
                           [Function |-> f.cache[l.StableName],
                            Line |-> l.Line]])

\* locationForCall; syms and found record what the Symbolizer returned and
\* seen the locations the loop went through
locationForCall(sym, fn, at, funs, cache) ==
    LET r == IF at > 0 THEN Locations(sym, fn, at)
                       ELSE [addr |-> 0, locs |-> << >>]
        symbolFound == Len(r.locs) > 0
        locations == defaultNames(IF Len(r.locs) = 0 THEN << ZeroLocation >>
                                                     ELSE r.locs, fn.name)
        res == fillLines(locations, 1, symbolFound, funs, cache,
                         [i \in 1..Len(locations) |-> ZeroLine])
    IN  [location |-> [ID |-> 0, Address |-> r.addr, Line |-> res.lines,
                       fn |-> fn, pc |-> at, syms |-> r.locs],
         funs |-> res.funs,
         cache |-> res.cache,
         seen |-> [i \in 1..Len(locations) |->
                      [loc |-> locations[i], found |-> symbolFound]]]

\* buildProfile: the loop over the frames of one sample, from the i-th on
RECURSIVE locateFrames(_, _, _, _)
locateFrames(b, stack, i, location) ==
    IF i > Len(stack)
    THEN [b |-> b, location |-> location]
    ELSE LET fn == stack[i].fn
             at == stack[i].pc
             key == makeLocationKey(fn, at)
         IN  IF key \in DOMAIN b.locationCache
             THEN locateFrames(b, stack, i + 1,
                               [location EXCEPT ![i] = b.locationCache[key]])
             ELSE LET c == locationForCall(b.sym, fn, at, b.funs, b.functionCache)
                      nb == [b EXCEPT
                                !.locs = Append(@, [c.location EXCEPT
                                                       !.ID = b.locationID]),
                                !.locationID = @ + 1,
                                !.locationCache = MapPut(@, key, Len(b.locs) + 1),
                                !.funs = c.funs,
                                !.functionCache = c.cache,
                                !.trail = @ \o c.seen]
                  IN  locateFrames(nb, stack, i + 1,
                                   [location EXCEPT ![i] = Len(b.locs) + 1])

\* the counter maps buildProfile is given, by value
BuildMaps ==
    { [k \in {HashKey(st) : st \in S} |->
          [stack |-> CHOOSE st \in S : HashKey(st) = k, count |-> 1, total |-> 1]] :
      S \in {T \in SUBSET BuildStacks : Cardinality(T) <= MaxSamples} }

BuildInit ==
    /\ CpuInit /\ host = FALSE /\ LibIdle
    /\ obs = ObsIdle
    /\ elide = ElideIdle
    /\ \E sym \in Symbolizers, m \in BuildMaps :
          build = [BuildIdle EXCEPT !.on = TRUE, !.sym = sym, !.samples = m,
                                    !.todo = DOMAIN m]

\* one iteration of "for _, sample := range samples" in buildProfile
BuildSample ==
    /\ build.on /\ ~build.done
    /\ \E k \in build.todo :
          LET sample == build.samples[k]
              r == locateFrames(build, sample.stack, 1,
                                [i \in 1..Len(sample.stack) |-> 0])
          IN  build' = [r.b EXCEPT
                           !.todo = @ \ {k},
                           !.Sample = Append(@, [Location |-> r.location,
                                                 Value |-> << sample.count,
                                                              sample.total >>,
                                                 of |-> k])]
    /\ UNCHANGED << cpuVars, obs, elide, libVars >>

\* the end of buildProfile: the tables are made with the size of the caches
\* and filled at ID-1; an ID beyond the table is an index out of range
BuildFinish ==
    /\ build.on /\ ~build.done /\ build.todo = {}
    /\ LET N == Cardinality(DOMAIN build.locationCache)
           M == Cardinality(DOMAIN build.functionCache)
           ls == {build.locationCache[k] : k \in DOMAIN build.locationCache}
           fs == {build.functionCache[k] : k \in DOMAIN build.functionCache}
       IN  IF /\ \A i \in ls : build.locs[i].ID <= N
              /\ \A i \in fs : build.funs[i].ID <= M
           THEN build' = [build EXCEPT
                    !.Location = [k \in 1..N |->
                        IF \E i \in ls : build.locs[i].ID = k
                        THEN CHOOSE i \in ls : build.locs[i].ID = k ELSE 0],
                    !.Function = [k \in 1..M |->
                        IF \E i \in fs : build.funs[i].ID = k
                        THEN CHOOSE i \in fs : build.funs[i].ID = k ELSE 0],
                    !.done = TRUE]
           ELSE build' = [build EXCEPT !.failed = TRUE, !.done = TRUE]
    /\ UNCHANGED << cpuVars, obs, elide, libVars >>

NextBuild == BuildSample \/ BuildFinish

SpecBuild == BuildInit /\ [][NextBuild]_vars

\* the frame key of the specification: {module, func_index, func_name, pc}
FrameKey(fr) == << fr.fn.module, fr.fn.index, fr.fn.name, fr.pc >>

\* the stack of the s-th emitted sample
SampleStack(s) == build.samples[build.Sample[s].of].stack

\* every frame of every emitted sample with the Location it points to
Refs ==
    UNION { { [key |-> FrameKey(SampleStack(s)[i]),
               at |-> build.Sample[s].Location[i]] :
              i \in 1..Len(SampleStack(s)) } :
            s \in 1..Len(build.Sample) }

\* C7: every distinct frame key {module, func_index, func_name, pc} of the
\* samples gets exactly one Location, shared by all samples that contain it;
\* Location IDs are exactly 1..N, the Location with ID k is at index k-1 of
\* the Location table, and there is exactly one Sample per counter-map entry.
C7_LocationPerFrameKey ==
    /\ \A s \in 1..Len(build.Sample) :
          Len(build.Sample[s].Location) = Len(SampleStack(s))
    /\ \A r1, r2 \in Refs : (r1.key = r2.key) <=> (r1.at = r2.at)
    /\ {r.at : r \in Refs} = 1..Len(build.locs)
    /\ {build.locs[i].ID : i \in 1..Len(build.locs)} = 1..Len(build.locs)
    /\ Cardinality({build.Sample[s].of : s \in 1..Len(build.Sample)})
          = Len(build.Sample)
    /\ build.done =>
          /\ ~build.failed
          /\ Len(build.Location) = Len(build.locs)
          /\ \A k \in 1..Len(build.Location) :
                build.Location[k] # 0 /\ build.locs[build.Location[k]].ID = k
          /\ {build.Sample[s].of : s \in 1..Len(build.Sample)}
                = DOMAIN build.samples

\* C7 witness: a finished profile of three samples where two samples share a
\* frame and one function occurs at two program counters
C7_Witness ==
    /\ build.done
    /\ Len(build.Sample) = 3
    /\ \E s1, s2 \in 1..Len(build.Sample) :
          s1 # s2 /\ build.Sample[s1].Location[Len(SampleStack(s1))]
                       = build.Sample[s2].Location[Len(SampleStack(s2))]
    /\ \E i, j \in 1..Len(build.locs) :
          /\ build.locs[i].fn = build.locs[j].fn
          /\ build.locs[i].pc # build.locs[j].pc

\* the stable names of the locations gone through so far
Names == {build.trail[i].loc.StableName : i \in 1..Len(build.trail)}

\* where in the trail a stable name came first, and where it came with a
\* successful symbolization
FirstAt(n) ==
    CHOOSE i \in 1..Len(build.trail) :
        /\ build.trail[i].loc.StableName = n
        /\ \A j \in 1..(i - 1) : build.trail[j].loc.StableName # n

FoundAt(n) ==
    {i \in 1..Len(build.trail) :
        build.trail[i].loc.StableName = n /\ build.trail[i].found}

LastOf(S) == CHOOSE i \in S : \A j \in S : j <= i

\* the location whose names a Function is to show: the one of the latest
\* successful symbolization, or else the one it was created from
Shown(n) ==
    IF FoundAt(n) = {} THEN build.trail[FirstAt(n)].loc
    ELSE build.trail[LastOf(FoundAt(n))].loc

\* C8: each distinct stable_name has exactly one Function, with IDs dense in
\* 1..M; a Function created from a frame whose symbolization returned
\* nothing is overwritten in place (Name, SystemName, Filename) by a later
\* frame of the same stable_name whose symbolization succeeds, and keeps the
\* ID it got when it was created.
C8_FunctionPerStableName ==
    /\ DOMAIN build.functionCache = Names
    /\ \A n, m \in Names :
          build.functionCache[n] = build.functionCache[m] => n = m
    /\ Len(build.funs) = Cardinality(Names)
    /\ {build.funs[i].ID : i \in 1..Len(build.funs)} = 1..Len(build.funs)
    /\ \A n \in Names :
          LET f == build.funs[build.functionCache[n]]
          IN  /\ f.ID = Cardinality({build.trail[j].loc.StableName :
                                        j \in 1..FirstAt(n)})
              /\ f.SystemName = n
              /\ f.Name = Shown(n).HumanName
              /\ f.Filename = Shown(n).File
    /\ build.done =>
          /\ Len(build.Function) = Len(build.funs)
          /\ \A k \in 1..Len(build.Function) :
                build.Function[k] # 0 /\ build.funs[build.Function[k]].ID = k

\* C8 witness: a Function created from a frame that was not symbolized and
\* patched by a later frame that was, not the first Function of the profile
C8_Witness ==
    \E n \in Names :
        /\ ~build.trail[FirstAt(n)].found
        /\ FoundAt(n) # {}
        /\ build.funs[build.functionCache[n]].Name
              # build.trail[FirstAt(n)].loc.HumanName
        /\ build.funs[build.functionCache[n]].Filename # ""
        /\ build.funs[build.functionCache[n]].ID > 1

\* C9: the Lines of every Location are the Symbolizer's list reversed: its
\* entry i of n (from 0) is Line n-1-i, so the outermost inlined line comes
\* first and the Symbolizer's first entry last.
C9_LinesReversed ==
    \A i \in 1..Len(build.locs) :
        LET L == build.locs[i]
            n == Len(L.syms)
        IN  n > 0 =>
              /\ Len(L.Line) = n
              /\ \A j \in 1..n :
                    /\ L.Line[n + 1 - j].Line = L.syms[j].Line
                    /\ build.funs[L.Line[n + 1 - j].Function].SystemName =
                          IF j = 1 /\ L.syms[j].StableName = ""
                          THEN L.fn.name ELSE L.syms[j].StableName

\* C9 witness: a Location made from a list of two entries
C9_Witness ==
    \E i \in 1..Len(build.locs) :
        /\ build.locs[i].syms = << LocX, LocG >>
        /\ build.locs[i].Line[1].Line = LocG.Line
        /\ build.locs[i].Line[2].Line = LocX.Line

\* the Locations of the frames for which the Symbolizer returned nothing or
\* was not asked
NotFound == {i \in 1..Len(build.locs) : build.locs[i].syms = << >>}

\* C10, as stated: a frame that is not symbolized still gets a Location with
\* exactly one Line, whose Function has Name and SystemName equal to the
\* function's declared name, an empty file name and line 0, and building
\* the profile never fails.
C10_NotFoundDeclaredName ==
    /\ ~build.failed
    /\ \A i \in NotFound :
          LET L == build.locs[i]
          IN  /\ Len(L.Line) = 1
              /\ L.Line[1].Line = 0
              /\ build.funs[L.Line[1].Function].Name = L.fn.name
              /\ build.funs[L.Line[1].Function].SystemName = L.fn.name
              /\ build.funs[L.Line[1].Function].Filename = ""

\* C10, amended: a frame that is not symbolized still gets a Location with
\* exactly one Line, of line 0, whose Function has SystemName equal to the
\* function's declared name; the Function is the one shared by all frames
\* of that stable name, so its Name is the declared name and its file name
\* empty only while no frame of that stable name was symbolized, and
\* otherwise they are those of the latest such symbolization; building the
\* profile never fails.
C10_NotFoundSharedFunction ==
    /\ ~build.failed
    /\ \A i \in NotFound :
          LET L == build.locs[i]
              f == build.funs[L.Line[1].Function]
          IN  /\ Len(L.Line) = 1
              /\ L.Line[1].Line = 0
              /\ L.fn.name \in DOMAIN build.functionCache
              /\ L.Line[1].Function = build.functionCache[L.fn.name]
              /\ f.SystemName = L.fn.name
              /\ FoundAt(L.fn.name) = {} => f.Name = L.fn.name /\ f.Filename = ""
              /\ FoundAt(L.fn.name) # {} =>
                    /\ f.Name = Shown(L.fn.name).HumanName
                    /\ f.Filename = Shown(L.fn.name).File

\* C10 witness: a finished profile with a frame the Symbolizer did not
\* resolve, a frame of pc 0, and a frame it resolved to another name
C10_Witness ==
    /\ build.done /\ ~build.failed
    /\ \E i, j \in NotFound, k \in 1..Len(build.locs) :
          /\ build.locs[i].pc > 0
          /\ build.locs[j].pc = 0
          /\ build.locs[k].syms # << >>
          /\ build.funs[build.locs[i].Line[1].Function].Name = build.locs[i].fn.name
          /\ build.funs[build.locs[i].Line[1].Function].Filename = ""

(***************************************************************************)
(* Runtime.PrepareModule and the construction of the DWARF symbolizer.     *)
(* A custom section is known by its name; whether debug/dwarf accepts the  *)
(* bytes of the sections is an input of its own.  A section that is in     *)
(* the list has non-nil Data.                                              *)
(***************************************************************************)
Nil == "nil"

\* the sections newDwarfmapper asks for, in the order it tests them
DebugSections ==
    << ".debug_info", ".debug_line", ".debug_str", ".debug_abbrev",
       ".debug_ranges" >>

SectionNames == {DebugSections[i] : i \in DOMAIN DebugSections} \cup {"name"}

\* dwarf.New: the Data, or nil with an error when it cannot decode the units
dwarfNew(accepts) == IF accepts THEN "Data" ELSE Nil

\* newDwarfmapper: the error of dwarf.New is dropped and d.Reader() is
\* called on what it returned, a nil pointer when it failed
newDwarfmapper(sections, accepts) ==
    LET missing == {i \in DOMAIN DebugSections : DebugSections[i] \notin sections}
    IN  IF missing # {}
        THEN [mapper |-> Nil, panic |-> FALSE,
              err |-> << "dwarf: missing section: ",
                         DebugSections[CHOOSE i \in missing :
                                          \A j \in missing : i <= j] >>]
        ELSE IF dwarfNew(accepts) = Nil
        THEN [mapper |-> Nil, err |-> Nil, panic |-> TRUE]
        ELSE [mapper |-> "dwarfmapper", err |-> Nil, panic |-> FALSE]

\* buildDwarfSymbolizer: the symbolizer over newDwarfmapper, or its error
buildDwarfSymbolizer(sections, accepts) ==
    LET r == newDwarfmapper(sections, accepts)
    IN  [symbols |-> IF r.mapper = Nil THEN Nil ELSE "dwarf",
         err |-> r.err, panic |-> r.panic]

PrepInit ==
    /\ CpuInit /\ host = FALSE
    /\ obs = ObsIdle /\ elide = ElideIdle /\ build = BuildIdle
    /\ look = Idle /\ wasmbin = Idle /\ vmem = Idle /\ pclntab = Idle
    /\ codemap = Idle /\ walk = Idle /\ memprof = Idle
    /\ LaterIdle
    /\ \E sections \in SUBSET SectionNames, accepts, go, pclnOk \in BOOLEAN :
          prep = [on |-> TRUE, sections |-> sections, accepts |-> accepts,
                  go |-> go, pclnOk |-> pclnOk, at |-> "new",
                  symbols |-> Nil, stackIterator |-> Nil, made |-> Nil,
                  ret |-> Nil]

prepOthers ==
    << cpuVars, obs, elide, build, look, wasmbin, vmem, pclntab, codemap, walk,
       memprof, laterVars >>

\* PrepareModule for a module compiled by Go: the error of the pclntab
\* symbolizer is returned
PrepareModuleGo ==
    /\ prep.on /\ prep.at = "new" /\ prep.go
    /\ prep' = IF prep.pclnOk
               THEN [prep EXCEPT !.at = "returned", !.symbols = "pclntab",
                                 !.stackIterator = "goStackIteratorMaker"]
               ELSE [prep EXCEPT !.at = "returned",
                                 !.ret = "pclntab: error"]
    /\ UNCHANGED prepOthers

\* PrepareModule for any other module; made is what newDwarfmapper returned
PrepareModuleDwarf ==
    /\ prep.on /\ prep.at = "new" /\ ~prep.go
    /\ LET r == buildDwarfSymbolizer(prep.sections, prep.accepts)
       IN  prep' = IF r.panic
                   THEN [prep EXCEPT !.at = "panicked", !.made = r]
                   ELSE [prep EXCEPT
                            !.at = "returned",
                            !.made = r,
                            !.symbols = IF r.err # Nil THEN "noopsymbolizer"
                                                       ELSE r.symbols,
                            !.stackIterator = "wasmStackIteratorMaker"]
    /\ UNCHANGED prepOthers

NextPrep == PrepareModuleGo \/ PrepareModuleDwarf

SpecPrep == PrepInit /\ [][NextPrep]_vars

\* a debug section is absent from the module's custom sections
Absent ==
    \E i \in DOMAIN DebugSections : DebugSections[i] \notin prep.sections

\* the construction of the DWARF symbolizer was run
Constructed == prep.on /\ ~prep.go /\ prep.at # "new"

\* the construction did not yield a symbolizer: it returned an error or
\* did not return
Failed == prep.at = "panicked" \/ prep.made.err # Nil

\* C11: constructing the DWARF symbolizer fails if and only if one of the
\* five debug sections is absent, with an error that names a missing
\* section; on that failure PrepareModule installs the no-op symbolizer and
\* returns no error.
C11_FailsIffSectionAbsent ==
    Constructed =>
       /\ Failed <=> Absent
       /\ Failed =>
             /\ \E i \in DOMAIN DebugSections :
                   /\ DebugSections[i] \notin prep.sections
                   /\ prep.made.err = << "dwarf: missing section: ",
                                         DebugSections[i] >>
             /\ prep.at = "returned"
             /\ prep.symbols = "noopsymbolizer"
             /\ prep.ret = Nil

\* with a section absent newDwarfmapper returns the error that names the
\* first absent one, PrepareModule installs the no-op symbolizer and returns
\* no error; no error is returned with all five present
C11_MissingSectionError ==
    Constructed =>
       /\ Absent <=> prep.at = "returned" /\ prep.made.err # Nil
       /\ Absent =>
             /\ \E i \in DOMAIN DebugSections :
                   /\ DebugSections[i] \notin prep.sections
                   /\ \A j \in 1..(i - 1) : DebugSections[j] \in prep.sections
                   /\ prep.made.err = << "dwarf: missing section: ",
                                         DebugSections[i] >>
             /\ prep.symbols = "noopsymbolizer"
             /\ prep.ret = Nil

(***************************************************************************)
(* dwarfmapper.Lookup on an index of one compile unit.  A line entry is    *)
(* known by its position in the line program and its address; a location   *)
(* carries the position it was read at in place of file, line and column.  *)
(***************************************************************************)
\* the greatest address of a line entry
MaxAddr == 4
\* the most line entries of the compile unit
MaxLines == 3
\* the most inlined subroutines of a subprogram
MaxInlines == 2

\* the line programs of a compile unit: the addresses, in program order
LinePrograms == UNION { [1..n -> 1..MaxAddr] : n \in 0..MaxLines }

\* the program counters looked up
LookupPCs == 0..(MaxAddr + 1)

\* the files of the compile unit's line program
NumFiles == 1

\* AttrCallFile of an inlined subroutine that has none, or not an int64
NoCallFile == -1

\* AttrCallFile of an inlined subroutine: none, or an index
CallFiles == {NoCallFile, 0, NumFiles}

\* the inlined subroutines of a subprogram, by their AttrCallFile
InlineLists == UNION { [1..n -> CallFiles] : n \in 0..MaxInlines }

\* the ranges of the subprogram, the only one of the index
SubprogramRanges == { << 0, MaxAddr + 1 >>, << 2, 3 >> }

\* the orders sort.Slice can leave the lines in: sorted by address, equal
\* addresses in any order
SortedByAddress(lines) ==
    {p \in Permutations(DOMAIN lines) :
        \A i, j \in DOMAIN lines :
            i < j => lines[p[i]].Address <= lines[p[j]].Address}

\* sort.Search(len(lines), lines[i].Address >= pc), counted from 1
SearchAddress(lines, at) ==
    IF \E i \in DOMAIN lines : lines[i].Address >= at
    THEN CHOOSE i \in DOMAIN lines :
            /\ lines[i].Address >= at
            /\ \A j \in 1..(i - 1) : lines[j].Address < at
    ELSE Len(lines) + 1

\* Lookup: the locations of the inlined subroutines, from Inlines[i] down
\* (i counted from 1), up to the first without a usable call file
RECURSIVE inlineLocations(_, _, _)
inlineLocations(inlines, i, at) ==
    IF i < 1 THEN << >>
    ELSE IF inlines[i] = NoCallFile \/ inlines[i] >= NumFiles THEN << >>
    ELSE << [Pos |-> 0, Inlined |-> i # 1, PC |-> at, inline |-> i] >>
            \o inlineLocations(inlines, i - 1, at)

\* Lookup: the line entry chosen, as an index in the sorted lines; 0 when
\* there is none.  The variant that falls back on the last line
lineForPCLast(lines, at) ==
    LET i == SearchAddress(lines, at)
    IN  IF i = Len(lines) + 1 THEN Len(lines)
        ELSE IF lines[i].Address # at THEN i - 1
        ELSE i

\* Lookup: the line entry chosen, as an index in the sorted lines; 0 when
\* there is none
lineForPC(lines, at) ==
    LET i == SearchAddress(lines, at)
    IN  IF i = Len(lines) + 1 THEN 0
        ELSE IF lines[i].Address # at THEN i - 1
        ELSE i

\* Lookup, given the order the sort left the lines in
LookupIn(range, inlines, sorted, at) ==
    IF ~(range[1] <= at /\ at <= range[2]) THEN << >>
    ELSE LET i == lineForPC(sorted, at)
         IN  IF i = 0 THEN << >>
             ELSE << [Pos |-> sorted[i].Pos, Inlined |-> Len(inlines) > 0,
                      PC |-> at, inline |-> 0] >>
                     \o inlineLocations(inlines, Len(inlines), at)

LookInit ==
    /\ CpuInit /\ host = FALSE
    /\ obs = ObsIdle /\ elide = ElideIdle /\ build = BuildIdle
    /\ prep = Idle /\ wasmbin = Idle /\ vmem = Idle /\ pclntab = Idle
    /\ codemap = Idle /\ walk = Idle /\ memprof = Idle
    /\ LaterIdle
    /\ \E prog \in LinePrograms, range \in SubprogramRanges,
          inlines \in InlineLists, at \in LookupPCs :
          look = [on |-> TRUE, prog |-> prog, range |-> range,
                  inlines |-> inlines, at |-> at, done |-> FALSE,
                  locations |-> << >>]

\* d.Lookup(pc)
Lookup ==
    /\ look.on /\ ~look.done
    /\ LET lines == [i \in DOMAIN look.prog |->
                        [Pos |-> i, Address |-> look.prog[i]]]
       IN  \E p \in SortedByAddress(lines) :
              look' = [look EXCEPT
                          !.done = TRUE,
                          !.locations =
                              LookupIn(look.range, look.inlines,
                                       [i \in DOMAIN lines |-> lines[p[i]]],
                                       look.at)]
    /\ UNCHANGED << cpuVars, obs, elide, build, prep, wasmbin, vmem, pclntab,
                    codemap, walk, memprof, laterVars >>

NextLook == Lookup

SpecLook == LookInit /\ [][NextLook]_vars

\* the PC looked up lies inside the range of the subprogram
InRange == look.range[1] <= look.at /\ look.at <= look.range[2]

\* the line addresses of the compile unit that are not above the PC
AtOrBelow == {look.prog[i] : i \in DOMAIN look.prog} \cap 0..look.at

\* C12: for a PC inside an indexed subprogram range Lookup resolves the line
\* entry with the greatest address <= PC, the entry at PC when there is one
\* and else the predecessor, also when PC is above every line address; the
\* list is empty only when PC is below all line addresses.
C12_GreatestAddressAtOrBelow ==
    (look.on /\ look.done /\ InRange) =>
       /\ look.locations = << >> <=> AtOrBelow = {}
       /\ look.locations # << >> =>
             /\ look.prog[look.locations[1].Pos] \in AtOrBelow
             /\ \A a \in AtOrBelow : a <= look.prog[look.locations[1].Pos]

\* the line addresses of the compile unit that are not below the PC
AtOrAbove ==
    {look.prog[i] : i \in DOMAIN look.prog} \cap look.at..MaxAddr

\* C12, amended: for a PC inside an indexed subprogram range that is not
\* above every line address, Lookup resolves the line entry with the
\* greatest address <= PC, the entry at PC when there is one and else the
\* predecessor; it returns an empty list when PC is below all line addresses
\* and also when PC is above all of them.
C12_GreatestAddressWithinLines ==
    (look.on /\ look.done /\ InRange) =>
       /\ look.locations = << >> <=> (AtOrBelow = {} \/ AtOrAbove = {})
       /\ look.locations # << >> =>
             /\ look.prog[look.locations[1].Pos] \in AtOrBelow
             /\ \A a \in AtOrBelow : a <= look.prog[look.locations[1].Pos]

\* C12 witness: a PC between two line addresses resolved to the line before
\* it, which is not the first of the line program
C12_Witness ==
    /\ look.on /\ look.done /\ InRange
    /\ look.locations # << >>
    /\ look.prog[look.locations[1].Pos] < look.at
    /\ look.locations[1].Pos > 1
    /\ AtOrAbove # {}

\* C13: every non-empty list Lookup returns, whatever the inlined
\* subroutines of the subprogram and their call files, has exactly one
\* entry with Inlined = false, and that entry is the last of the list.
C13_OneNotInlinedLast ==
    (look.on /\ look.done /\ look.locations # << >>) =>
       LET L == look.locations
       IN  /\ ~L[Len(L)].Inlined
           /\ \A i \in 1..(Len(L) - 1) : L[i].Inlined

\* the same for the subprograms whose inlined subroutines all have a call
\* file that is an index into the files of the line program
C13_CallFilesUsable ==
    (/\ look.on /\ look.done /\ look.locations # << >>
     /\ \A i \in DOMAIN look.inlines : look.inlines[i] \in 0..(NumFiles - 1)) =>
       LET L == look.locations
       IN  /\ Len(L) = 1 + Len(look.inlines)
           /\ ~L[Len(L)].Inlined
           /\ \A i \in 1..(Len(L) - 1) : L[i].Inlined

(***************************************************************************)
(* wasmbinSections on a valid module.  The module is the sequence of its   *)
(* sections after the magic and version; a section is its id, the length   *)
(* of its contents and, for a custom section, its name.  Lengths are       *)
(* below 128, so that every length takes one byte.  A span is an offset    *)
(* and a length, and nil when the section was not set.                     *)
(***************************************************************************)
\* the most sections of a module
MaxSections == 4

customSectionId == 0
importSectionId == 2
codeSectionId == 10
dataSectionId == 11
typeSectionId == 1

wasmSection(id, length, name) == [id |-> id, length |-> length, name |-> name]

\* the sections modules are made of; the contents of a custom section
\* begin with the length of its name and its name
ModuleSections ==
    { wasmSection(typeSectionId, 1, ""), wasmSection(importSectionId, 2, ""),
      wasmSection(codeSectionId, 3, ""), wasmSection(dataSectionId, 1, ""),
      wasmSection(customSectionId, 6, "name"),
      wasmSection(customSectionId, 7, "other") }

Modules == UNION { [1..n -> ModuleSections] : n \in 0..MaxSections }

NameLen(name) == IF name = "name" THEN 4 ELSE 5

\* section{}: Data is nil
NoSection == [valid |-> FALSE, Offset |-> 0, length |-> 0]

section(offset, length) == [valid |-> TRUE, Offset |-> offset, length |-> length]

NoSections ==
    [imports |-> NoSection, code |-> NoSection, data |-> NoSection,
     name |-> NoSection]

\* wasmbinSections: the loop over the sections, from the i-th on, at offset;
\* r holds imports, code and data as set so far
RECURSIVE scanSections(_, _, _, _)
scanSections(b, i, offset, r) ==
    IF i > Len(b) THEN NoSections
    ELSE LET sec == b[i]
             at == offset + 2
             next == at + sec.length
         IN  IF sec.id = importSectionId
             THEN scanSections(b, i + 1, next,
                               [r EXCEPT !.imports = section(at, sec.length)])
             ELSE IF sec.id = codeSectionId
             THEN scanSections(b, i + 1, next,
                               [r EXCEPT !.code = section(at, sec.length)])
             ELSE IF sec.id = dataSectionId
             THEN scanSections(b, i + 1, next,
                               [r EXCEPT !.data = section(at, sec.length)])
             ELSE IF sec.id = customSectionId /\ r.data.valid
                       /\ sec.name = "name"
             THEN [r EXCEPT !.name =
                      section(at + 1 + NameLen(sec.name),
                              sec.length - 1 - NameLen(sec.name))]
             ELSE scanSections(b, i + 1, next, r)

wasmbinSections(b) == scanSections(b, 1, 8, NoSections)

WasmbinInit ==
    /\ CpuInit /\ host = FALSE
    /\ obs = ObsIdle /\ elide = ElideIdle /\ build = BuildIdle
    /\ prep = Idle /\ look = Idle /\ vmem = Idle /\ pclntab = Idle
    /\ codemap = Idle /\ walk = Idle /\ memprof = Idle
    /\ LaterIdle
    /\ \E b \in Modules :
          wasmbin = [on |-> TRUE, b |-> b, done |-> FALSE, r |-> NoSections]

\* imports, code, data, name := wasmbinSections(b)
WasmbinSections ==
    /\ wasmbin.on /\ ~wasmbin.done
    /\ wasmbin' = [wasmbin EXCEPT !.done = TRUE, !.r = wasmbinSections(wasmbin.b)]
    /\ UNCHANGED << cpuVars, obs, elide, build, prep, look, vmem, pclntab,
                    codemap, walk, memprof, laterVars >>

NextWasmbin == WasmbinSections

SpecWasmbin == WasmbinInit /\ [][NextWasmbin]_vars

\* the module has a section of this id
HasSection(id) == \E i \in DOMAIN wasmbin.b : wasmbin.b[i].id = id

\* the module has a custom section named "name" after a data section
HasNameAfterData ==
    \E i, j \in DOMAIN wasmbin.b :
        /\ i < j
        /\ wasmbin.b[i].id = dataSectionId
        /\ wasmbin.b[j].id = customSectionId /\ wasmbin.b[j].name = "name"

\* C14: the locator returns an empty span only for a section that is absent:
\* for a module with import, code and data sections and no custom section
\* named "name" after the data section, the import, code and data spans are
\* not empty and only the name span is.
C14_EmptySpanOnlyIfAbsent ==
    (/\ wasmbin.on /\ wasmbin.done
     /\ HasSection(importSectionId) /\ HasSection(codeSectionId)
     /\ HasSection(dataSectionId) /\ ~HasNameAfterData) =>
       /\ wasmbin.r.imports.valid /\ wasmbin.r.imports.length > 0
       /\ wasmbin.r.code.valid /\ wasmbin.r.code.length > 0
       /\ wasmbin.r.data.valid /\ wasmbin.r.data.length > 0
       /\ ~wasmbin.r.name.valid

\* with a custom section named "name" after a data section, the spans of
\* the sections met before it are returned, and without one none is
C14_SpansOnlyWithName ==
    (wasmbin.on /\ wasmbin.done) =>
       /\ wasmbin.r.name.valid <=> HasNameAfterData
       /\ ~HasNameAfterData => wasmbin.r = NoSections
       /\ HasNameAfterData =>
             /\ wasmbin.r.data.valid
             /\ \A i \in DOMAIN wasmbin.b :
                   wasmbin.b[i].id = importSectionId /\ wasmbin.r.imports.valid
                      => wasmbin.r.imports.length = wasmbin.b[i].length

(***************************************************************************)
(* vmem: the memory rebuilt from data segments.  m.b is a slice of length  *)
(* len over a backing array arr, whose length is the slice's capacity.     *)
(***************************************************************************)
\* the most bytes a vmem is grown to
MaxVmem == 4
\* the most bytes of one CopyAtAddress
MaxCopy == 2
\* the most CopyAtAddress calls on one vmem
MaxCopies == 3

\* the bytes copied; none is zero, the value of the bytes make() yields
CopyBytes == {1, 2}

CopyArgs == UNION { [1..n -> CopyBytes] : n \in 0..MaxCopy }

\* the virtual addresses a vmem starts at
VmemStarts == {0, 3}

Zeroes(n) == [i \in 1..n |-> 0]

\* m.b
Buffer(m) == SubSeq(m.arr, 1, m.len)

\* CopyAtAddress that appends the bytes right after the loaded ones
CopyAtAddressNoGap(m, addr, b) ==
    LET end == m.len + m.Start
    IN  IF addr < end THEN [m EXCEPT !.panicked = TRUE]
        ELSE [m EXCEPT !.arr = Buffer(m) \o b \o Zeroes(addr - end),
                       !.len = m.len + Len(b) + (addr - end)]

\* CopyAtAddress
CopyAtAddress(m, addr, b) ==
    LET end == m.len + m.Start
        size == m.len
        zeroes == addr - end
        total == zeroes + Len(b) + size
        grown == IF Len(m.arr) < total
                 THEN Buffer(m) \o Zeroes(total - size)
                 ELSE m.arr
        copied == [i \in DOMAIN grown |->
                      IF size + zeroes < i /\ i <= size + zeroes + Len(b)
                      THEN b[i - (size + zeroes)] ELSE grown[i]]
    IN  IF addr < end THEN [m EXCEPT !.panicked = TRUE]
        ELSE IF m.Start + total # addr + Len(b)
        THEN [m EXCEPT !.arr = copied, !.len = total, !.panicked = TRUE]
        ELSE [m EXCEPT !.arr = copied, !.len = total]

VmemInit ==
    /\ CpuInit /\ host = FALSE
    /\ obs = ObsIdle /\ elide = ElideIdle /\ build = BuildIdle
    /\ prep = Idle /\ look = Idle /\ wasmbin = Idle /\ pclntab = Idle
    /\ codemap = Idle /\ walk = Idle /\ memprof = Idle
    /\ LaterIdle
    /\ \E st \in VmemStarts :
          vmem = [on |-> TRUE, Start |-> st, arr |-> << >>, len |-> 0,
                  panicked |-> FALSE, calls |-> 0, addr |-> 0, b |-> << >>]

\* m.CopyAtAddress(addr, b); calls, addr and b record the call
VmemCopy ==
    /\ vmem.on /\ ~vmem.panicked /\ vmem.calls < MaxCopies
    /\ \E addr \in vmem.Start..(vmem.Start + MaxVmem), b \in CopyArgs :
          /\ addr + Len(b) <= vmem.Start + MaxVmem
          /\ vmem' = [CopyAtAddress(vmem, addr, b) EXCEPT
                         !.calls = vmem.calls + 1, !.addr = addr, !.b = b]
    /\ UNCHANGED << cpuVars, obs, elide, build, prep, look, wasmbin, pclntab,
                    codemap, walk, memprof, laterVars >>

NextVmem == VmemCopy

SpecVmem == VmemInit /\ [][NextVmem]_vars

\* C15: a CopyAtAddress with vaddr < base_vaddr + len(buffer) panics; an
\* accepted call leaves every loaded byte unchanged, fills the gap between
\* the old end and vaddr with zero bytes, places the bytes from
\* buffer[vaddr - base_vaddr] on, and ends with base_vaddr + len(buffer) =
\* vaddr + len(bytes); the length of the buffer never decreases.
C15_CopyAtAddress ==
    [][(vmem.on /\ vmem'.calls # vmem.calls) =>
         LET end == vmem.Start + vmem.len
             addr == vmem'.addr
             b == vmem'.b
             old == Buffer(vmem)
             new == Buffer(vmem')
         IN  /\ vmem'.panicked <=> addr < end
             /\ vmem'.Start = vmem.Start
             /\ Len(new) >= Len(old)
             /\ \A i \in DOMAIN old : new[i] = old[i]
             /\ addr >= end =>
                   /\ \A i \in (Len(old) + 1)..(addr - vmem.Start) : new[i] = 0
                   /\ \A i \in DOMAIN b : new[addr - vmem.Start + i] = b[i]
                   /\ vmem.Start + Len(new) = addr + Len(b)]_vars

\* C15 witness: bytes were loaded, then more after a gap, and a call below
\* the end was rejected
C15_Witness ==
    /\ vmem.on /\ vmem.panicked /\ vmem.calls = MaxCopies
    /\ vmem.Start > 0
    /\ \E i \in 2..(vmem.len - 1) :
          /\ Buffer(vmem)[i] = 0
          /\ Buffer(vmem)[i - 1] # 0
          /\ Buffer(vmem)[i + 1] # 0

(***************************************************************************)
(* pclntabFromData.  The data section is taken from the segment that       *)
(* holds the magic on: a sequence of segments, each a virtual address and  *)
(* its bytes, the first one starting with the magic.                       *)
(***************************************************************************)
magic == << 241, 255, 255, 255, 0, 0 >>

\* x shifted right by n bytes
RECURSIVE ShiftRight(_, _)
ShiftRight(x, n) == IF n = 0 THEN x ELSE ShiftRight(x \div 256, n - 1)

\* binary.LittleEndian.PutUint64
LE64(x) == [i \in 1..8 |-> ShiftRight(x, i - 1) % 256]

\* the integer of the bytes b[s+1..s+n], the least significant first
RECURSIVE UintLE(_, _, _)
UintLE(b, s, n) == IF n = 0 THEN 0 ELSE b[s + 1] + 256 * UintLE(b, s + 1, n - 1)

\* binary.LittleEndian.Uint64(b[s:])
Uint64(b, s) == UintLE(b, s, 8)

RECURSIVE Flatten(_)
Flatten(ss) == IF ss = << >> THEN << >> ELSE Head(ss) \o Flatten(Tail(ss))

\* the images rebuilt: magic, quantum, ptrsize, the header words and what
\* follows them, filled up to the length n
PclnImage(words, n) ==
    LET head == magic \o << 1, 8 >> \o Flatten([k \in 1..Len(words) |-> LE64(words[k])])
    IN  [i \in 1..n |-> IF i <= Len(head) THEN head[i] ELSE 7]

\* the header words of the images, word 0 first: word 0 is nfunctab, and
\* the words 7 and 8 differ
PclnWords ==
    { << nfunctab, 3, 4660, 90, 91, 92, 93, w7, 99 >> :
         nfunctab \in {0, 1, 2}, w7 \in {80, 84} }

PclnLengths == {73, 89, 92, 100}

\* where an image is cut into segments
PclnCuts == {8, 40, 76, 90}

PclnStarts == {0, 64}

\* the segments of an image loaded at vaddr and cut at the offsets of cuts
Segments(image, vaddr, cuts) ==
    LET marks == {0} \cup {c \in cuts : c < Len(image)}
        Upto(c) == IF \E d \in marks : d > c
                   THEN CHOOSE d \in marks : d > c /\ \A e \in marks : e > c => d <= e
                   ELSE Len(image)
        Ordered == CHOOSE f \in [1..Cardinality(marks) -> marks] :
                       \A i, j \in 1..Cardinality(marks) : i < j => f[i] < f[j]
    IN  [i \in 1..Cardinality(marks) |->
            [vaddr |-> vaddr + Ordered[i],
             b |-> SubSeq(image, Ordered[i] + 1, Upto(Ordered[i]))]]

\* vmem.Has
Has(m, addr) == addr < m.len

\* the loop "for !vm.Has(addr) { vaddr, seg := d.Next(); ... }" of fillUntil
\* and of readWord: rest are the segments d.Next() has not returned yet
RECURSIVE fillUntil(_, _, _)
fillUntil(m, rest, addr) ==
    IF Has(m, addr) THEN [m |-> m, rest |-> rest, panic |-> FALSE]
    ELSE IF rest = << >> THEN [m |-> m, rest |-> rest, panic |-> TRUE]
    ELSE fillUntil(CopyAtAddress(m, rest[1].vaddr, rest[1].b), Tail(rest), addr)

\* the loop that loads every remaining segment
RECURSIVE fillAll(_, _)
fillAll(m, rest) ==
    IF rest = << >> THEN m
    ELSE fillAll(CopyAtAddress(m, rest[1].vaddr, rest[1].b), Tail(rest))

\* readWord: vm.PclntabOffset(word), with more segments loaded on a fault
readWord(m, rest, word) ==
    LET st == 8 + word * m.Ptrsize
        f == fillUntil(m, rest, st + 8)
    IN  [m |-> f.m, rest |-> f.rest, panic |-> f.panic,
         x |-> IF f.panic THEN 0 ELSE Uint64(Buffer(f.m), st)]

\* the header words read one after the other, from word k on
RECURSIVE readWords(_, _, _, _)
readWords(m, rest, k, xs) ==
    IF k > 7 THEN [m |-> m, rest |-> rest, panic |-> FALSE, xs |-> xs]
    ELSE LET r == readWord(m, rest, k)
         IN  IF r.panic THEN [m |-> r.m, rest |-> r.rest, panic |-> TRUE, xs |-> xs]
             ELSE readWords(r.m, r.rest, k + 1, Append(xs, r.x))

\* the header fields, with functabAddr taken from the word before
headerFieldsShifted(xs) ==
    [nfunctab |-> xs[1], nfiletab |-> xs[2], pcstart |-> xs[3],
     funcnametabAddr |-> xs[4], cutabAddr |-> xs[5], filetabAddr |-> xs[6],
     pctabAddr |-> xs[7], funcdataAddr |-> xs[8], functabAddr |-> xs[7]]

\* the header fields: funcdataAddr and functabAddr are both readWord(7)
headerFields(xs) ==
    [nfunctab |-> xs[1], nfiletab |-> xs[2], pcstart |-> xs[3],
     funcnametabAddr |-> xs[4], cutabAddr |-> xs[5], filetabAddr |-> xs[6],
     pctabAddr |-> xs[7], funcdataAddr |-> xs[8], functabAddr |-> xs[8]]

NoFields == headerFields([k \in 1..8 |-> 0])

\* pclntabFromData, from the first CopyAtAddress on
pclntabFromData(segs) ==
    LET vm0 == CopyAtAddress([Start |-> segs[1].vaddr, arr |-> << >>, len |-> 0,
                              panicked |-> FALSE, Ptrsize |-> 0],
                             segs[1].vaddr, segs[1].b)
        seg == segs[1].b
        bad == [panic |-> TRUE, b |-> << >>, fields |-> NoFields, end |-> 0]
    IN  IF Len(seg) < Len(magic) \/ SubSeq(seg, 1, Len(magic)) # magic THEN bad
        ELSE IF Len(seg) < 8 THEN bad
        ELSE IF seg[Len(magic) + 2] # 8 THEN bad
        ELSE LET vm == [vm0 EXCEPT !.Ptrsize = seg[Len(magic) + 2]]
                 w == readWords(vm, Tail(segs), 0, << >>)
             IN  IF w.panic THEN bad
                 ELSE LET fields == headerFields(w.xs)
                          end == fields.functabAddr + (fields.nfunctab * 2 + 1) * 4
                          f == fillUntil(w.m, w.rest, end)
                      IN  IF f.panic THEN [bad EXCEPT !.fields = fields, !.end = end]
                          ELSE LET all == fillAll(f.m, f.rest)
                               IN  IF all.panicked \/ all.len < end THEN bad
                                   ELSE [panic |-> FALSE, b |-> Buffer(all),
                                         fields |-> fields, end |-> end]

PclntabInit ==
    /\ CpuInit /\ host = FALSE
    /\ obs = ObsIdle /\ elide = ElideIdle /\ build = BuildIdle
    /\ prep = Idle /\ look = Idle /\ wasmbin = Idle /\ vmem = Idle
    /\ codemap = Idle /\ walk = Idle /\ memprof = Idle
    /\ LaterIdle
    /\ \E words \in PclnWords, n \in PclnLengths, cuts \in SUBSET PclnCuts,
          vaddr \in PclnStarts :
          pclntab = [on |-> TRUE, done |-> FALSE,
                     image |-> PclnImage(words, n),
                     segs |-> Segments(PclnImage(words, n), vaddr, cuts),
                     r |-> [panic |-> FALSE, b |-> << >>, fields |-> NoFields,
                            end |-> 0]]

\* pclntab := pclntabFromData(data)
PclntabFromData ==
    /\ pclntab.on /\ ~pclntab.done
    /\ pclntab' = [pclntab EXCEPT !.done = TRUE,
                                  !.r = pclntabFromData(pclntab.segs)]
    /\ UNCHANGED << cpuVars, obs, elide, build, prep, look, wasmbin, vmem,
                    codemap, walk, memprof, laterVars >>

NextPclntab == PclntabFromData

SpecPclntab == PclntabInit /\ [][NextPclntab]_vars

\* header word k of the image: the 8-byte little-endian integer at offset
\* 8 + k*ptrsize
HeaderWord(k) == Uint64(pclntab.image, 8 + k * 8)

\* the reassembly returned an image
Reassembled == pclntab.on /\ pclntab.done /\ ~pclntab.r.panic

\* C16: the header fields are the header words in header order, nfunctab =
\* word 0 up to funcdata_addr = word 7 and functab_addr = word 8; the
\* function-table end is functab_addr + (2*nfunctab + 1)*4, and the image
\* returned has at least that length and starts with the magic.
C16_HeaderWordsInOrder ==
    Reassembled =>
       LET f == pclntab.r.fields
       IN  /\ f.nfunctab = HeaderWord(0) /\ f.nfiletab = HeaderWord(1)
           /\ f.pcstart = HeaderWord(2) /\ f.funcnametabAddr = HeaderWord(3)
           /\ f.cutabAddr = HeaderWord(4) /\ f.filetabAddr = HeaderWord(5)
           /\ f.pctabAddr = HeaderWord(6) /\ f.funcdataAddr = HeaderWord(7)
           /\ f.functabAddr = HeaderWord(8)
           /\ pclntab.r.end = f.functabAddr + (2 * f.nfunctab + 1) * 4
           /\ Len(pclntab.r.b) >= pclntab.r.end
           /\ SubSeq(pclntab.r.b, 1, Len(magic)) = magic

\* C16, amended: the header has eight words after the magic, quantum and
\* ptrsize; nfunctab = word 0 up to pctab_addr = word 6, and funcdata_addr
\* and functab_addr are both word 7.  The function-table end is that
\* functab_addr + (2*nfunctab + 1)*4, and the image returned holds every
\* segment, is longer than that end and starts with the magic.
C16_FunctabIsWordSeven ==
    Reassembled =>
       LET f == pclntab.r.fields
       IN  /\ f.nfunctab = HeaderWord(0) /\ f.nfiletab = HeaderWord(1)
           /\ f.pcstart = HeaderWord(2) /\ f.funcnametabAddr = HeaderWord(3)
           /\ f.cutabAddr = HeaderWord(4) /\ f.filetabAddr = HeaderWord(5)
           /\ f.pctabAddr = HeaderWord(6) /\ f.funcdataAddr = HeaderWord(7)
           /\ f.functabAddr = HeaderWord(7)
           /\ pclntab.r.end = f.functabAddr + (2 * f.nfunctab + 1) * 4
           /\ Len(pclntab.r.b) > pclntab.r.end
           /\ pclntab.r.b = pclntab.image

\* C16 witness: an image returned whose header was cut across segments, with
\* a word above 255 and with functions
C16_Witness ==
    /\ Reassembled
    /\ Len(pclntab.segs) = 3
    /\ Len(pclntab.segs[1].b) = 8
    /\ pclntab.r.fields.pcstart > 255
    /\ pclntab.r.fields.nfunctab = 1
    /\ pclntab.r.end = 92

\* ---------------------------------------------------------------------------
\* codemap: function ids and program counters of a module compiled by Go
\* (pclntab.go), and the program counter the stack iterator maker starts a
\* walk at (goStackIteratorMaker.pcForFID).
\*
\* A program counter is PC_F << 16 | PC_B.  The values are uint64 in the code;
\* with the function counts below they stay under 2^31, so no operation wraps.
\* ---------------------------------------------------------------------------

\* the most functions a module imports
MaxImports == 2

\* the most functions in the code section
MaxFuncs == 3

funcValueOffset == 4096

\* frame sizes found by parseFnCode
FrameSizes == {0, 16}

\* PC_B values, the low 16 bits of a program counter
PCBs == {0, 1, 65535}

\* x << 16 and x >> 16
Shl16(x) == x * 65536

Shr16(x) == x \div 65536

\* pc & ~0xFFFF
ClearPCB(at) == Shl16(Shr16(at))

\* buildCodemap: the function at index i of the code section gets
\* Id = i + importsCount; sizes[i + 1] is its frame size.
buildCodemap(importsCount, sizes) ==
    [imports |-> importsCount,
     fnmaps  |-> [i \in 1..Len(sizes) |->
                    [Id |-> (i - 1) + importsCount, Frame |-> sizes[i]]]]

FidToIdx(c, i) == i - c.imports

FidxToId(c, i) == i + c.imports

FindPCF(c, i) == Shl16(funcValueOffset + i - c.imports)

FidxForPC(c, at) == Shr16(at) - funcValueOffset

\* c.fnmaps[pc>>16-funcValueOffset].Id (fnmaps is indexed from 0 in the code)
FidForPC(c, at) == c.fnmaps[FidxForPC(c, at) + 1].Id

FramesizeForFidx(c, idx) == c.fnmaps[idx + 1].Frame

\* The maker PrepareModule builds: the literal sets the embedded
\* goStackIterator only, so imported keeps the zero value, and nothing
\* assigns it afterwards.
goStackIteratorMaker == [imported |-> 0]

pcForFID(g, f) == Shl16(funcValueOffset + f - g.imported)

\* the program counters of the functions of the code map
CodemapPCs(c) ==
    { FindPCF(c, c.fnmaps[i].Id) + b : i \in DOMAIN c.fnmaps, b \in PCBs }

CodemapInit ==
    /\ CpuInit /\ host = FALSE
    /\ obs = ObsIdle /\ elide = ElideIdle /\ build = BuildIdle
    /\ prep = Idle /\ look = Idle /\ wasmbin = Idle /\ vmem = Idle
    /\ pclntab = Idle /\ walk = Idle /\ memprof = Idle
    /\ LaterIdle
    /\ \E importsCount \in 0..MaxImports, n \in 1..MaxFuncs :
       \E sizes \in [1..n -> FrameSizes] :
       \E at \in CodemapPCs(buildCodemap(importsCount, sizes)) :
          codemap = [on |-> TRUE, done |-> FALSE,
                     c |-> buildCodemap(importsCount, sizes),
                     g |-> goStackIteratorMaker,
                     at |-> at, id |-> 0, pcf |-> 0, pc0 |-> 0]

\* id := cm.FidForPC(pc); cm.FindPCF(id); g.pcForFID(id)
CodemapRoundTrip ==
    /\ codemap.on /\ ~codemap.done
    /\ LET id == FidForPC(codemap.c, codemap.at)
       IN  codemap' = [codemap EXCEPT !.done = TRUE,
                                      !.id = id,
                                      !.pcf = FindPCF(codemap.c, id),
                                      !.pc0 = pcForFID(codemap.g, id)]
    /\ UNCHANGED << cpuVars, obs, elide, build, prep, look, wasmbin, vmem,
                    pclntab, walk, memprof, laterVars >>

NextCodemap == CodemapRoundTrip

SpecCodemap == CodemapInit /\ [][NextCodemap]_vars

\* C17: for every module, whatever its number of imported functions, and
\* every program counter of the code map, the program counter computed for
\* the function id of that program counter, (0x1000 + id - imports) << 16,
\* is the program counter with its low 16 bits cleared; this for both
\* computations of the code, codemap.FindPCF and goStackIteratorMaker.pcForFID.
C17_PCForIdOfFidForPC ==
    (codemap.on /\ codemap.done) =>
        /\ codemap.pcf = ClearPCB(codemap.at)
        /\ codemap.pc0 = ClearPCB(codemap.at)

\* The round trip holds through codemap.FindPCF for every number of imports,
\* and through pcForFID exactly when the module imports no function.
C17_FindPCFRoundTrip ==
    (codemap.on /\ codemap.done) =>
        /\ codemap.pcf = ClearPCB(codemap.at)
        /\ FidToIdx(codemap.c, codemap.id) = FidxForPC(codemap.c, codemap.at)
        /\ FidxToId(codemap.c, FidxForPC(codemap.c, codemap.at)) = codemap.id
        /\ (codemap.pc0 = ClearPCB(codemap.at)) <=> (codemap.c.imports = 0)

\* ---------------------------------------------------------------------------
\* goStackIterator: the walk of the stack of a module compiled by Go
\* (pclntab.go), driven by the loop of makeStackTrace or by a listener that
\* asks each frame for its program counter only.
\*
\* g.sp is a uint32.  A value at or above 2^31 is written as the negative
\* number congruent to it modulo 2^32, so that sp - n is the subtraction of
\* the code as long as |sp - n| < 2^31; the memories below are far smaller,
\* and a read at such an address is out of their bounds.
\* ---------------------------------------------------------------------------

\* the 8-byte words of the guest memory, which holds the stack
MaxStack == 3

\* the memory of the words ws, each stored as binary.LittleEndian does
StackMemory(ws) == Flatten([k \in 1..Len(ws) |-> LE64(ws[k])])

\* api.Memory.Read(addr, n): ok when the n bytes at addr are in the memory
ReadOk(mem, addr, n) == addr >= 0 /\ addr + n <= Len(mem)

\* the return addresses found on a stack: a program counter inside each
\* function of the code map, and 0 where the stack holds something else
ReturnPCs(c) == { FindPCF(c, c.fnmaps[i].Id) + 1 : i \in DOMAIN c.fnmaps } \cup {0}

prepareGoStackIterator(c, mem, sp0, f) ==
    [cm |-> c, mem |-> mem, sp |-> sp0, fn |-> FidToIdx(c, f),
     pc |-> FindPCF(c, f), started |-> FALSE]

\* goStackIterator.Next: the iterator after the call, and what the call
\* returned ("true") or the panic it ended in
goNext(g) ==
    IF ~g.started THEN [g |-> [g EXCEPT !.started = TRUE], r |-> "true"]
    ELSE IF ~ReadOk(g.mem, g.sp, 8) THEN [g |-> g, r |-> "invalid read"]
    ELSE LET callerpc == Uint64(g.mem, g.sp)
             parentIdx == FidxForPC(g.cm, callerpc)
         IN  IF parentIdx + 1 \notin DOMAIN g.cm.fnmaps
             THEN [g |-> g, r |-> "index out of range"]
             ELSE [g |-> [g EXCEPT !.sp = g.sp - (FramesizeForFidx(g.cm, parentIdx) + 8)],
                   r |-> "true"]

\* goStackIterator.ProgramCounter
ProgramCounter(g) == g.pc

WalkInit ==
    /\ CpuInit /\ host = FALSE
    /\ obs = ObsIdle /\ elide = ElideIdle /\ build = BuildIdle
    /\ prep = Idle /\ look = Idle /\ wasmbin = Idle /\ vmem = Idle
    /\ pclntab = Idle /\ codemap = Idle /\ memprof = Idle
    /\ LaterIdle
    /\ \E importsCount \in {0, MaxImports}, sizes \in [1..2 -> FrameSizes] :
       LET c == buildCodemap(importsCount, sizes)
       IN  \E ws \in [1..MaxStack -> ReturnPCs(c)], w0 \in 0..(MaxStack - 1),
              i \in DOMAIN c.fnmaps, fns \in BOOLEAN :
              walk = [on |-> TRUE,
                      g |-> prepareGoStackIterator(c, StackMemory(ws), 8 * w0,
                                                   c.fnmaps[i].Id),
                      fns |-> fns, at |-> "next", r |-> "", nexts |-> 0,
                      pcs |-> << >>]

\* "for si.Next()": the loop asks for the next frame
WalkNext ==
    /\ walk.on /\ walk.at = "next"
    /\ LET n == goNext(walk.g)
       IN  walk' = [walk EXCEPT !.g = n.g, !.r = n.r,
                                !.nexts = walk.nexts + 1,
                                !.at = IF n.r = "true" THEN "body"
                                       ELSE IF n.r = "false" THEN "done"
                                       ELSE "panic"]
    /\ UNCHANGED << cpuVars, obs, elide, build, prep, look, wasmbin, vmem,
                    pclntab, codemap, memprof, laterVars >>

\* the body of the loop of makeStackTrace: si.Function() panics
MakeStackTraceFrame ==
    /\ walk.on /\ walk.at = "body" /\ walk.fns
    /\ walk' = [walk EXCEPT !.at = "panic", !.r = "implement me"]
    /\ UNCHANGED << cpuVars, obs, elide, build, prep, look, wasmbin, vmem,
                    pclntab, codemap, memprof, laterVars >>

\* the body of a loop that keeps the program counter of each frame
ProgramCounterFrame ==
    /\ walk.on /\ walk.at = "body" /\ ~walk.fns
    /\ walk' = [walk EXCEPT !.at = "next",
                            !.pcs = Append(walk.pcs, ProgramCounter(walk.g))]
    /\ UNCHANGED << cpuVars, obs, elide, build, prep, look, wasmbin, vmem,
                    pclntab, codemap, memprof, laterVars >>

NextWalk == WalkNext \/ MakeStackTraceFrame \/ ProgramCounterFrame

SpecWalk == WalkInit /\ [][NextWalk]_vars

\* the loop is not suspended: a call returns or panics
SpecWalkFair == SpecWalk /\ WF_vars(NextWalk)

\* a call of Next after the first frame that returns
StepAfterFirst ==
    /\ walk.on /\ walk.at = "next" /\ walk.g.started
    /\ walk'.at = "body"

\* the return address at *(sp) and the frame size of its function
ReturnAddress == Uint64(walk.g.mem, walk.g.sp)

ReturnFrameSize ==
    FramesizeForFidx(walk.g.cm, FidxForPC(walk.g.cm, ReturnAddress))

\* C18: each step of the walk after the first frame reads the 8-byte
\* little-endian return address at *(sp), finds the frame size of the function
\* of that return address, sets sp to sp + frame size + 8 and pc to the return
\* address, so that the frame of that step reports the return address as its
\* program counter.
C18_StepUpToCaller ==
    [][StepAfterFirst =>
          /\ walk'.g.sp = walk.g.sp + ReturnFrameSize + 8
          /\ walk'.g.pc = ReturnAddress
          /\ ProgramCounter(walk'.g) = ReturnAddress]_vars

\* What a step does: it moves the stack pointer down by the frame size + 8
\* and leaves the program counter of the first frame in place.
C18_StepDownSamePC ==
    [][StepAfterFirst =>
          /\ walk'.g.sp = walk.g.sp - (ReturnFrameSize + 8)
          /\ walk'.g.pc = walk.g.pc
          /\ walk'.g.fn = walk.g.fn]_vars

\* C19: for every guest stack the walk ends: after finitely many steps Next
\* returns false, and the loop that builds the stack trace ends with a finite
\* trace instead of running until a read of the memory fails.
C19_NextReturnsFalse == <>(walk.on /\ walk.r = "false" /\ walk.at = "done")

\* Next never returns false,
C19_NextNeverFalse == walk.on => (walk.r # "false" /\ walk.at # "done")

\* and every walk ends in a panic.
C19_EndsInPanic == <>(walk.on /\ walk.at = "panic")

\* ---------------------------------------------------------------------------
\* ProfilerMemory: the names it listens to and the bytes its processors
\* charge (the memory profiler).
\*
\* A uint64 of the parameter array, and the global 0, is written as its 8
\* bytes, the least significant first, so that int32(x) is the conversion of
\* the code for every value of the low 32 bits.  The counts are int64 in the
\* code; the values below keep them, and their products, under 2^31.
\* ---------------------------------------------------------------------------

\* the functions of a guest: the allocators and some that are not
FunctionNames ==
    {"malloc", "calloc", "realloc", "runtime.mallocgc", "runtime.alloc",
     "free", "runtime.malloc", "Malloc", ""}

\* values of a parameter: 0, 3, 24, 2^32 - 1 and 2^32 - 8
ParamValues ==
    {LE64(0), LE64(3), LE64(24),
     << 255, 255, 255, 255, 0, 0, 0, 0 >>, << 248, 255, 255, 255, 0, 0, 0, 0 >>}

\* values of global 0, the stack pointer: 0, 8, 24, 2^32 - 1 and 2^32 - 8
GlobalValues ==
    {LE64(0), LE64(8), LE64(24),
     << 255, 255, 255, 255, 0, 0, 0, 0 >>, << 248, 255, 255, 255, 0, 0, 0, 0 >>}

\* what the words of the guest stack hold
StackWords == {24, 4096}

\* int32(x): the low 32 bits of x, read as a signed number
Int32(x) ==
    LET low == UintLE(x, 0, 3)
    IN  IF x[4] < 128 THEN low + x[4] * 16777216
        ELSE low + (x[4] - 256) * 16777216

\* ProfilerMemory.Register: the names of the processors
Register ==
    {"profileStack0int32", "profileStack1int32", "profileStackCalloc",
     "profileGoStack0int32"}

\* Listen that files realloc with malloc
ListenFirstParam(name) ==
    CASE name = "malloc" -> "profileStack0int32"
      [] name = "calloc" -> "profileStackCalloc"
      [] name = "realloc" -> "profileStack0int32"
      [] name = "runtime.mallocgc" -> "profileGoStack0int32"
      [] name = "runtime.alloc" -> "profileStack0int32"
      [] OTHER -> ""

\* ProfilerMemory.Listen
Listen(name) ==
    CASE name = "malloc" -> "profileStack0int32"
      [] name = "calloc" -> "profileStackCalloc"
      [] name = "realloc" -> "profileStack1int32"
      [] name = "runtime.mallocgc" -> "profileGoStack0int32"
      [] name = "runtime.alloc" -> "profileStack0int32"
      [] OTHER -> ""

\* PreFunction of the processor p on the parameters params of a call in a
\* module with memory mem and global 0 g0 (params[1] is params[0] of the code)
PreFunction(p, mem, g0, params) ==
    CASE p = "profileStack0int32" -> [panic |-> FALSE, v |-> Int32(params[1])]
      [] p = "profileStackCalloc" ->
            [panic |-> FALSE, v |-> Int32(params[1]) * Int32(params[2])]
      [] p = "profileStack1int32" -> [panic |-> FALSE, v |-> Int32(params[2])]
      [] p = "profileGoStack0int32" ->
            LET sp == Int32(g0)
                offset == sp + 8 * (0 + 1)
            IN  IF ~ReadOk(mem, offset, 8) THEN [panic |-> TRUE, v |-> 0]
                ELSE [panic |-> FALSE, v |-> Uint64(mem, offset)]

\* PostFunction of every processor
PostFunction(in) == in

MemprofInit ==
    /\ CpuInit /\ host = FALSE
    /\ obs = ObsIdle /\ elide = ElideIdle /\ build = BuildIdle
    /\ prep = Idle /\ look = Idle /\ wasmbin = Idle /\ vmem = Idle
    /\ pclntab = Idle /\ codemap = Idle /\ walk = Idle
    /\ LaterIdle
    /\ \E name \in FunctionNames, params \in [1..2 -> ParamValues],
          ws \in [1..MaxStack -> StackWords], g0 \in GlobalValues :
          memprof = [on |-> TRUE, at |-> "listen", name |-> name,
                     params |-> params, mem |-> StackMemory(ws), g0 |-> g0,
                     processor |-> "", panic |-> FALSE, in |-> 0, charge |-> 0]

\* the profiler is asked whether it listens to the function
MemprofListen ==
    /\ memprof.on /\ memprof.at = "listen"
    /\ LET p == Listen(memprof.name)
       IN  memprof' = [memprof EXCEPT !.processor = p,
                                      !.at = IF p \in Register THEN "pre"
                                             ELSE "ignored"]
    /\ UNCHANGED << cpuVars, obs, elide, build, prep, look, wasmbin, vmem,
                    pclntab, codemap, walk, laterVars >>

\* the function is called: PreFunction of its processor
MemprofPreFunction ==
    /\ memprof.on /\ memprof.at = "pre"
    /\ LET r == PreFunction(memprof.processor, memprof.mem, memprof.g0,
                            memprof.params)
       IN  memprof' = [memprof EXCEPT !.panic = r.panic, !.in = r.v,
                                      !.at = IF r.panic THEN "panic" ELSE "post"]
    /\ UNCHANGED << cpuVars, obs, elide, build, prep, look, wasmbin, vmem,
                    pclntab, codemap, walk, laterVars >>

\* the function returns: PostFunction of its processor
MemprofPostFunction ==
    /\ memprof.on /\ memprof.at = "post"
    /\ memprof' = [memprof EXCEPT !.charge = PostFunction(memprof.in),
                                  !.at = "done"]
    /\ UNCHANGED << cpuVars, obs, elide, build, prep, look, wasmbin, vmem,
                    pclntab, codemap, walk, laterVars >>

NextMemprof == MemprofListen \/ MemprofPreFunction \/ MemprofPostFunction

SpecMemprof == MemprofInit /\ [][NextMemprof]_vars

\* the numbers the parameters and the global above can stand for
Counts == -8..24

\* c is the 32-bit parameter x: the same low 32 bits, and the same number
\* when x is below 2^31
IsParam(c, x) ==
    /\ SubSeq(LE64(c), 1, 4) = SubSeq(x, 1, 4)
    /\ (x[4] < 128 /\ SubSeq(x, 5, 8) = << 0, 0, 0, 0 >>) => LE64(c) = x

Allocators == {"malloc", "calloc", "realloc", "runtime.mallocgc", "runtime.alloc"}

MaxEntries == 7

dwarfEntry(tag, children, name) == [Tag |-> tag, Children |-> children, name |-> name]

\* a compile unit, a namespace "a" with children, a namespace "b" without,
\* a subprogram and the null entry that ends a list of children
DwarfEntries ==
    {dwarfEntry("CompileUnit", TRUE, "cu"), dwarfEntry("Namespace", TRUE, "a"),
     dwarfEntry("Namespace", FALSE, "b"), dwarfEntry("Subprogram", FALSE, "f"),
     dwarfEntry("null", FALSE, "")}

\* the entries that are open before entry i of es, the outermost first
RECURSIVE OpenBefore(_, _)
OpenBefore(es, i) ==
    IF i <= 1 THEN << >>
    ELSE LET open == OpenBefore(es, i - 1)
             e == es[i - 1]
         IN  IF e.Tag = "null" THEN SubSeq(open, 1, Len(open) - 1)
             ELSE IF e.Children THEN Append(open, i - 1)
             ELSE open

\* es is a section: compile units at the top, everything else inside one,
\* and every list of children ended
WellFormed(es) ==
    /\ OpenBefore(es, Len(es) + 1) = << >>
    /\ \A i \in 1..Len(es) :
          /\ (es[i].Tag = "CompileUnit") <=> (OpenBefore(es, i) = << >>)

DebugInfos ==
    UNION { { es \in [1..n -> DwarfEntries] : WellFormed(es) } : n \in 1..MaxEntries }

\* dwarf.Reader.SkipChildren after entry i was read: the position after the
\* children of i
RECURSIVE SkipTo(_, _, _)
SkipTo(es, at, open) ==
    IF at >= Len(es) THEN Len(es)
    ELSE LET e == es[at + 1]
         IN  IF e.Tag = "null"
             THEN IF open = 0 THEN at + 1 ELSE SkipTo(es, at + 1, open - 1)
             ELSE SkipTo(es, at + 1, IF e.Children THEN open + 1 ELSE open)

SkipChildren(es, i) == IF es[i].Children THEN SkipTo(es, i, 0) ELSE i

\* parseSubprogram: the loop over the children of subprogram e, then the
\* record of the subprogram; st.at is the last entry the reader returned
RECURSIVE parseSubprogramChildren(_, _, _)
parseSubprogramChildren(es, e, at) ==
    IF ~es[e].Children \/ at >= Len(es) THEN at
    ELSE IF es[at + 1].Tag = "null" THEN at + 1
    ELSE parseSubprogramChildren(es, e, SkipChildren(es, at + 1))

parseSubprogram(es, cu, ns, e, st) ==
    [at |-> parseSubprogramChildren(es, e, st.at),
     subprograms |-> Append(st.subprograms,
                            [Entry |-> e, CU |-> cu, Namespace |-> ns])]

RECURSIVE parseAny(_, _, _, _, _)
RECURSIVE parseCompileUnit(_, _, _, _)
RECURSIVE parseNamespace(_, _, _, _, _)

parseNamespace(es, cu, ns, e, st) ==
    parseCompileUnit(es, cu, ns \o es[e].name \o ":", st)

parseCompileUnit(es, cu, ns, st) == parseAny(es, cu, ns, cu, st)

parseAny(es, cu, ns, e, st) ==
    IF ~es[e].Children \/ st.at >= Len(es) THEN st
    ELSE LET i == st.at + 1
             read == [st EXCEPT !.at = i]
         IN  CASE es[i].Tag = "null" -> read
               [] es[i].Tag = "Subprogram" ->
                     parseAny(es, cu, ns, e, parseSubprogram(es, cu, ns, i, read))
               [] es[i].Tag = "Namespace" ->
                     parseAny(es, cu, ns, e, parseNamespace(es, cu, ns, i, read))
               [] OTHER ->
                     parseAny(es, cu, ns, e, parseAny(es, cu, ns, i, read))

\* dwarfparser.Parse
RECURSIVE Parse(_, _)
Parse(es, st) ==
    IF st.at >= Len(es) THEN st.subprograms
    ELSE LET i == st.at + 1
             read == [st EXCEPT !.at = i]
         IN  IF es[i].Tag = "CompileUnit"
             THEN Parse(es, parseCompileUnit(es, i, "", read))
             ELSE Parse(es, [read EXCEPT !.at = SkipChildren(es, i)])

ParseInit ==
    /\ CpuInit /\ host = FALSE
    /\ obs = ObsIdle /\ elide = ElideIdle /\ build = BuildIdle
    /\ prep = Idle /\ look = Idle /\ wasmbin = Idle /\ vmem = Idle
    /\ pclntab = Idle /\ codemap = Idle /\ walk = Idle /\ memprof = Idle
    /\ fncode = Idle /\ readw = Idle /\ names = Idle /\ symb = Idle
    /\ adapter = Idle
    /\ \E es \in DebugInfos :
          parse = [on |-> TRUE, done |-> FALSE, es |-> es, subprograms |-> << >>]

\* p.Parse() in newDwarfmapper
ParseEntries ==
    /\ parse.on /\ ~parse.done
    /\ parse' = [parse EXCEPT !.done = TRUE,
                              !.subprograms =
                                  Parse(parse.es, [at |-> 0, subprograms |-> << >>])]
    /\ UNCHANGED << cpuVars, obs, elide, build, prep, look, wasmbin, vmem,
                    pclntab, codemap, walk, memprof, fncode, readw, names,
                    symb, adapter >>

NextParse == ParseEntries

SpecParse == ParseInit /\ [][NextParse]_vars

\* "<name>:" of each namespace among the entries open, the outermost first
RECURSIVE Prefix(_, _)
Prefix(es, open) ==
    IF open = << >> THEN ""
    ELSE (IF es[Head(open)].Tag = "Namespace" THEN es[Head(open)].name \o ":" ELSE "")
         \o Prefix(es, Tail(open))

Recorded(i) ==
    { k \in 1..Len(parse.subprograms) : parse.subprograms[k].Entry = i }

\* C21: the namespace recorded for a subprogram is the concatenation of
\* "<name>:" for each Namespace entry that encloses it, the outermost first;
\* a subprogram that follows a Namespace entry as a sibling, also one that has
\* no children, does not get that namespace's prefix and keeps its own
\* compile unit.
C21_NamespaceOfEnclosing ==
    (parse.on /\ parse.done) =>
        \A i \in 1..Len(parse.es) :
            parse.es[i].Tag = "Subprogram" =>
                /\ Recorded(i) # {}
                /\ \A k \in Recorded(i) :
                      /\ parse.subprograms[k].Namespace =
                             Prefix(parse.es, OpenBefore(parse.es, i))
                      /\ parse.subprograms[k].CU = OpenBefore(parse.es, i)[1]

NoChildless == \A i \in 1..Len(parse.es) :
                  parse.es[i].Tag = "Namespace" => parse.es[i].Children

\* The statement holds of the sections whose namespaces all have children.
C21_NamespaceWithChildren == NoChildless => C21_NamespaceOfEnclosing

\* ---------------------------------------------------------------------------
\* parseFnCode: the jump table, the blocks and the frame size of the body of
\* a function compiled by Go (pclntab.go).
\*
\* Every byte of the bodies below is under 0x80, so that a varint is one
\* byte long.  A result is a funcmap, or the panic the call ended in.
\* ---------------------------------------------------------------------------

\* the most instructions of a body after its prologue
MaxInstrs == 5

\* b[k:]
From(b, k) == SubSeq(b, k + 1, Len(b))

\* binary.Uvarint of a buffer whose bytes are under 0x80
Uvarint(b) == IF b = << >> THEN [v |-> 0, n |-> 0] ELSE [v |-> b[1], n |-> 1]

\* sleb128 of a buffer whose bytes are under 0x80: b[0] panics on no byte
sleb128(b) ==
    IF b = << >> THEN [panic |-> TRUE, v |-> 0, n |-> 0]
    ELSE [panic |-> FALSE, v |-> IF b[1] >= 64 THEN b[1] - 128 ELSE b[1], n |-> 1]

\* the opcodes skipInstr knows, under 0x80
NoArgument == (69..127) \cup {0, 1, 15, 26, 27}

OneU32 == {12, 13, 16, 32, 33, 34, 35, 36, 37, 38}

TwoU32 == {17} \cup (40..62)

RECURSIVE skipInstr(_)
RECURSIVE skipExprFrom(_, _)
RECURSIVE skipIfFrom(_, _)
RECURSIVE skipUvarints(_, _, _)

\* i after c more varints of b were skipped from i
skipUvarints(b, i, c) ==
    IF c = 0 THEN i ELSE skipUvarints(b, i + Uvarint(From(b, i)).n, c - 1)

\* the loop of skipExpr, at index i of b
skipExprFrom(b, i) ==
    IF Len(b) <= 1 THEN [panic |-> FALSE, n |-> i]
    ELSE IF i >= Len(b) THEN [panic |-> TRUE, n |-> i]
    ELSE IF b[i + 1] = 11 THEN [panic |-> FALSE, n |-> i + 1]
    ELSE LET s == skipInstr(From(b, i))
         IN  IF s.panic THEN s ELSE skipExprFrom(b, i + s.n)

\* the loop of skipIf, at index i of b: "continue" after an else (0x05)
\* leaves i past it
skipIfFrom(b, i) ==
    IF Len(b) <= 1 THEN [panic |-> FALSE, n |-> i]
    ELSE IF i >= Len(b) THEN [panic |-> TRUE, n |-> i]
    ELSE IF b[i + 1] = 5 THEN skipIfFrom(b, i + 1)
    ELSE IF b[i + 1] = 11 THEN [panic |-> FALSE, n |-> i + 1]
    ELSE LET s == skipInstr(From(b, i))
         IN  IF s.panic THEN s ELSE skipIfFrom(b, i + s.n)

skipInstr(b) ==
    IF b = << >> THEN [panic |-> FALSE, n |-> 0]
    ELSE LET o == b[1]
             ok(n) == [panic |-> FALSE, n |-> n]
         IN  CASE o \in NoArgument -> ok(1)
               [] o \in {2, 3, 4} ->
                     LET t == sleb128(From(b, 1))
                         i == 1 + t.n
                         inner == IF o = 4 THEN skipIfFrom(From(b, i), 0)
                                  ELSE skipExprFrom(From(b, i), 0)
                     IN  IF t.panic \/ i > Len(b) THEN [panic |-> TRUE, n |-> 0]
                         ELSE IF inner.panic THEN inner
                         ELSE ok(i + inner.n)
               [] o \in OneU32 -> ok(1 + Uvarint(From(b, 1)).n)
               [] o \in {65, 66} ->
                     LET t == sleb128(From(b, 1))
                     IN  IF t.panic THEN [panic |-> TRUE, n |-> 0] ELSE ok(1 + t.n)
               [] o = 67 -> ok(5)
               [] o = 68 -> ok(9)
               [] o = 14 ->
                     LET c == Uvarint(From(b, 1))
                         i == skipUvarints(b, 1 + c.n, c.v)
                     IN  ok(i + Uvarint(From(b, i)).n)
               [] o \in TwoU32 -> ok(skipUvarints(b, 1, 2))
               [] o = 28 ->
                     LET x == Uvarint(From(b, 1)) IN ok(1 + x.n + x.v)
               [] OTHER -> [panic |-> TRUE, n |-> 0]

\* findInBlock from index i of hay: the index of needle, -1 without one
RECURSIVE findInBlockFrom(_, _, _)
findInBlockFrom(needle, hay, i) ==
    IF i + Len(needle) > Len(hay) THEN [panic |-> FALSE, i |-> -1]
    ELSE IF SubSeq(hay, i + 1, i + Len(needle)) = needle
         THEN [panic |-> FALSE, i |-> i]
    ELSE IF hay[i + 1] = 11 THEN [panic |-> FALSE, i |-> -1]
    ELSE LET s == skipInstr(From(hay, i))
         IN  IF s.panic THEN [panic |-> TRUE, i |-> -1]
             ELSE findInBlockFrom(needle, hay, i + s.n)

findInBlock(needle, hay) == findInBlockFrom(needle, hay, 0)

\* funcmap{}
NoFuncmap == [panic |-> FALSE, Jumps |-> << >>, Blocks |-> << >>, Frame |-> 0]

Panicked == [panic |-> TRUE, Jumps |-> << >>, Blocks |-> << >>, Frame |-> 0]

\* the loop over the locals: the buffer and the offset after them
RECURSIVE skipLocals(_, _, _)
skipLocals(b, offset, c) ==
    IF c = 0 THEN [panic |-> FALSE, b |-> b, offset |-> offset]
    ELSE LET n == Uvarint(b).n
         IN  IF n + 1 > Len(b) THEN [panic |-> TRUE, b |-> b, offset |-> offset]
             ELSE skipLocals(From(b, n + 1), offset + n + 1, c - 1)

\* the x jumps of a br_table
RECURSIVE readJumps(_, _, _)
readJumps(b, x, js) ==
    IF x = 0 THEN [b |-> b, js |-> js]
    ELSE readJumps(From(b, Uvarint(b).n), x - 1, Append(js, Uvarint(b).v))

\* the loop "for len(b) >= 3": out is "break" after a br_table, "end" when
\* fewer than three bytes are left, "bail" on return funcmap{}, or "panic"
RECURSIVE scanBlocks(_, _, _)
scanBlocks(b, offset, blockDepth) ==
    LET at(out) == [out |-> out, b |-> b, offset |-> offset,
                    blockDepth |-> blockDepth, Jumps |-> << >>, nblocks |-> 0]
    IN  IF Len(b) < 3 THEN at("end")
        ELSE IF b[1] = 2 /\ b[2] = 64
             THEN scanBlocks(From(b, 2), offset + 2, blockDepth + 1)
        ELSE IF b[1] = 3 /\ b[2] = 64 THEN scanBlocks(From(b, 2), offset + 2, 0)
        ELSE IF b[1] = 32 /\ b[2] = 0 /\ b[3] = 14
             THEN LET x == Uvarint(From(b, 3))
                      j == readJumps(From(b, 3 + x.n), x.v, << >>)
                      d == Uvarint(j.b)
                      rest == From(j.b, d.n)
                  IN  IF rest = << >> THEN at("panic")
                      ELSE IF rest[1] # 11 THEN at("bail")
                      ELSE [out |-> "break", b |-> From(rest, 1),
                            offset |-> offset + (Len(b) - Len(rest)) + 1,
                            blockDepth |-> blockDepth, Jumps |-> j.js,
                            nblocks |-> blockDepth]
        ELSE at("bail")

\* the backtrack from the local.tee at i to the i32.const, and the frame size
frameSize(b, i) ==
    LET RECURSIVE back(_)
        back(k) == IF k <= 0 \/ b[k + 1] = 65 THEN [bail |-> FALSE, k |-> k]
                   ELSE IF b[k + 1] < 128 THEN [bail |-> TRUE, k |-> k]
                   ELSE back(k - 1)
        r == back(i - 3)
        k == r.k + 1
        size == sleb128(From(b, k))
    IN  IF r.bail THEN [out |-> "bail", b |-> b, i |-> 0, Frame |-> 0]
        ELSE IF k < 0 \/ size.panic THEN [out |-> "panic", b |-> b, i |-> 0, Frame |-> 0]
        ELSE [out |-> "ok", b |-> From(b, k + size.n), i |-> k + size.n,
              Frame |-> size.v]

\* the loop "for blockDepth > 0"
RECURSIVE closeBlocks(_, _, _, _)
closeBlocks(b, offset, blockDepth, blocks) ==
    IF blockDepth = 0 THEN [panic |-> FALSE, Blocks |-> blocks]
    ELSE LET f == findInBlock(<< 11 >>, b)
             k == Len(blocks) - blockDepth + 1
             end == offset + f.i + 1
             closed == [blocks EXCEPT ![k][2] = end]
         IN  IF f.panic \/ f.i < 0 THEN [panic |-> TRUE, Blocks |-> blocks]
             ELSE closeBlocks(From(b, f.i + 1), end, blockDepth - 1,
                              IF blockDepth - 1 > 0
                              THEN [closed EXCEPT ![k + 1][1] = end]
                              ELSE closed)

parseFnCode(body, startfunc) ==
    IF Len(body) < 6 THEN NoFuncmap
    ELSE LET lc == Uvarint(body)
             l == skipLocals(From(body, lc.n), lc.n, lc.v)
         IN  IF l.panic THEN Panicked
             ELSE IF Len(l.b) < 4 THEN NoFuncmap
             ELSE LET s == scanBlocks(From(l.b, 4), l.offset + 4, 0)
                  IN  IF s.out = "bail" THEN NoFuncmap
                      ELSE IF s.out = "panic" THEN Panicked
                      ELSE IF s.nblocks - s.blockDepth < 0
                              \/ s.nblocks - s.blockDepth >= s.nblocks THEN Panicked
                      ELSE LET blocks == [[k \in 1..s.nblocks |-> << 0, 0 >>]
                                            EXCEPT ![1][1] = startfunc + s.offset]
                               tee == findInBlock(<< 34, 1 >>, s.b)
                               fr == IF tee.i >= 0 THEN frameSize(s.b, tee.i)
                                     ELSE [out |-> "ok", b |-> s.b, i |-> 0, Frame |-> 0]
                               c == closeBlocks(fr.b, startfunc + s.offset + fr.i,
                                                s.blockDepth, blocks)
                           IN  IF tee.panic \/ fr.out = "panic" THEN Panicked
                               ELSE IF fr.out = "bail" THEN NoFuncmap
                               ELSE IF c.panic THEN Panicked
                               ELSE [panic |-> FALSE, Jumps |-> s.Jumps,
                                     Blocks |-> c.Blocks, Frame |-> fr.Frame]

\* the locals of a body: none, or one group of one i32
LocalsOfBody == {<< 0 >>, << 1, 1, 127 >>}

\* global.get 0; local.set 1
goPrologue == << 35, 0, 33, 1 >>

\* the four bytes after the locals: the prologue, or i32.const 0; drop; nop
Prologues == {goPrologue, << 65, 0, 26, 1 >>}

\* block; loop; local.get 0 and a br_table of one jump; end; nop;
\* local.get 1, i32.const 16, i32.sub, local.tee 1, global.set 0
Instrs ==
    {<< 2, 64 >>, << 3, 64 >>, << 32, 0, 14, 1, 0, 0 >>, << 11 >>, << 1 >>,
     << 32, 1, 65, 16, 107, 34, 1, 36, 0 >>}

\* the bodies of at most the given number of instructions
FnBodies(most) ==
    UNION { { l \o p \o Flatten(is) : l \in LocalsOfBody, p \in Prologues,
              is \in [1..n -> Instrs] } : n \in 0..most }

FncodeInit ==
    /\ CpuInit /\ host = FALSE
    /\ obs = ObsIdle /\ elide = ElideIdle /\ build = BuildIdle
    /\ prep = Idle /\ look = Idle /\ wasmbin = Idle /\ vmem = Idle
    /\ pclntab = Idle /\ codemap = Idle /\ walk = Idle /\ memprof = Idle
    /\ parse = Idle /\ readw = Idle /\ names = Idle /\ symb = Idle
    /\ adapter = Idle
    /\ \E body \in FnBodies(MaxInstrs), startfunc \in {0, 100} :
          fncode = [on |-> TRUE, done |-> FALSE, b |-> body,
                    startfunc |-> startfunc, fm |-> NoFuncmap]

\* fnmap := parseFnCode(fncode, int(offset)) in buildCodemap
ParseFnCode ==
    /\ fncode.on /\ ~fncode.done
    /\ fncode' = [fncode EXCEPT !.done = TRUE,
                                !.fm = parseFnCode(fncode.b, fncode.startfunc)]
    /\ UNCHANGED << cpuVars, obs, elide, build, prep, look, wasmbin, vmem,
                    pclntab, codemap, walk, memprof, parse, readw, names,
                    symb, adapter >>

NextFncode == ParseFnCode

SpecFncode == FncodeInit /\ [][NextFncode]_vars

\* the body after its locals
AfterLocals(b) == From(b, IF b[1] = 0 THEN 1 ELSE 3)

\* block openings, then local.get 0; br_table, at the start of b
RECURSIVE Dispatch(_)
Dispatch(b) ==
    /\ Len(b) >= 3
    /\ \/ b[1] = 2 /\ b[2] = 64 /\ Dispatch(From(b, 2))
       \/ b[1] = 32 /\ b[2] = 0 /\ b[3] = 14

\* the shape of the body of a function compiled by Go
Shaped(b) ==
    /\ SubSeq(AfterLocals(b), 1, 4) = goPrologue
    /\ Dispatch(From(AfterLocals(b), 4))

\* C22: for every body that has not the shape expected after its locals (the
\* four bytes are not 23 00 21 01, or the block openings are not followed by
\* local.get 0; br_table, bodies with fewer than three bytes after the
\* prologue included), parseFnCode returns an empty funcmap, without jumps,
\* blocks or frame size, and does not fail.
C22_EmptyFuncmapUnlessShaped ==
    (fncode.on /\ fncode.done /\ ~Shaped(fncode.b)) => fncode.fm = NoFuncmap

\* An empty funcmap is what parseFnCode returns for the bodies with the
\* prologue in which something else than a block opening or the dispatch
\* comes while three bytes or more are left.
C22_EmptyFuncmapOnOtherInstr ==
    (/\ fncode.on /\ fncode.done
     /\ Len(AfterLocals(fncode.b)) >= 7
     /\ SubSeq(AfterLocals(fncode.b), 5, 6) \notin {<< 2, 64 >>, << 3, 64 >>, << 32, 0 >>})
        => fncode.fm = NoFuncmap

\* ---------------------------------------------------------------------------
\* readWord: a header word read from the image while its segments are
\* loaded, one call of vm.PclntabOffset at a time (pclntab.go).
\* ---------------------------------------------------------------------------

\* vmem.PclntabOffset: the word, or the segment fault
PclntabOffset(m, word) ==
    LET s == 8 + word * m.Ptrsize
        e == s + 8
    IN  IF ~Has(m, e) THEN [fault |-> TRUE, x |-> 0]
        ELSE [fault |-> FALSE, x |-> Uint64(Buffer(m), s)]

\* the lengths of the images a word is read from, and where they are cut
ReadwLengths == {40, 48, 73}

ReadwCuts == {8, 24, 40, 44}

ReadwInit ==
    /\ CpuInit /\ host = FALSE
    /\ obs = ObsIdle /\ elide = ElideIdle /\ build = BuildIdle
    /\ prep = Idle /\ look = Idle /\ wasmbin = Idle /\ vmem = Idle
    /\ pclntab = Idle /\ codemap = Idle /\ walk = Idle /\ memprof = Idle
    /\ parse = Idle /\ fncode = Idle /\ names = Idle /\ symb = Idle
    /\ adapter = Idle
    /\ \E words \in PclnWords, n \in ReadwLengths, cuts \in SUBSET ReadwCuts,
          vaddr \in PclnStarts, word \in 0..7 :
          LET segs == Segments(PclnImage(words, n), vaddr, cuts)
          IN  readw = [on |-> TRUE, at |-> "read", word |-> word,
                       image |-> PclnImage(words, n),
                       m |-> CopyAtAddress([Start |-> vaddr, arr |-> << >>,
                                            len |-> 0, panicked |-> FALSE,
                                            Ptrsize |-> 8],
                                           vaddr, segs[1].b),
                       rest |-> Tail(segs), faults |-> 0, x |-> 0]

\* one turn of the loop of readWord: the word is returned, or after a fault
\* the next segment is loaded, or there is none and readWord panics
ReadWordTurn ==
    /\ readw.on /\ readw.at = "read"
    /\ LET r == PclntabOffset(readw.m, readw.word)
       IN  IF ~r.fault
           THEN readw' = [readw EXCEPT !.at = "returned", !.x = r.x]
           ELSE IF readw.rest = << >>
           THEN readw' = [readw EXCEPT !.at = "panic",
                                       !.faults = readw.faults + 1]
           ELSE readw' = [readw EXCEPT
                             !.faults = readw.faults + 1,
                             !.m = CopyAtAddress(readw.m, readw.rest[1].vaddr,
                                                 readw.rest[1].b),
                             !.rest = Tail(readw.rest)]
    /\ UNCHANGED << cpuVars, obs, elide, build, prep, look, wasmbin, vmem,
                    pclntab, codemap, walk, memprof, parse, fncode, names,
                    symb, adapter >>

NextReadw == ReadWordTurn

SpecReadw == ReadwInit /\ [][NextReadw]_vars

\* the image holds the eight bytes of the word
WordLoaded == readw.m.len >= 8 + readw.word * readw.m.Ptrsize + 8

\* C23: reading header word k raises a segment fault if and only if the image
\* does not yet hold all eight bytes at [8 + k*ptrsize, 8 + k*ptrsize + 8);
\* after a fault the next segment is loaded and the read is tried again, and
\* it succeeds as soon as those eight bytes are loaded, without any further
\* byte or segment.
C23_FaultIffWordMissing ==
    [][(readw.on /\ readw.at = "read") =>
          /\ (readw'.faults > readw.faults) <=> ~WordLoaded
          /\ WordLoaded => (readw'.at = "returned"
                            /\ LE64(readw'.x) = SubSeq(readw.image,
                                                       8 + readw.word * 8 + 1,
                                                       8 + readw.word * 8 + 8))]_vars

\* The read faults if and only if the image does not hold the byte after the
\* word, at offset 8 + k*ptrsize + 8, and returns the word otherwise.
C23_FaultIffNextByteMissing ==
    [][(readw.on /\ readw.at = "read") =>
          LET e == 8 + readw.word * readw.m.Ptrsize + 8
          IN  /\ (readw'.faults > readw.faults) <=> (readw.m.len <= e)
              /\ (readw.m.len > e) =>
                     (readw'.at = "returned"
                      /\ LE64(readw'.x) = SubSeq(readw.image, e - 7, e))]_vars

\* ---------------------------------------------------------------------------
\* dwarfmapper.namesForSubprogram: the names of the function of an entry,
\* found up the chain of its abstract origins (dwarf.go).
\*
\* An entry is at an offset 1..MaxDies; AbstractOrigin is 0 without the
\* attribute, the offset of an entry, or MaxDies + 1, an offset at which
\* r.Next() fails.  e = 0 is the nil entry.
\* ---------------------------------------------------------------------------

\* the most entries that have a name
MaxDies == 2

DieName(o) == IF o = 1 THEN "f" ELSE IF o = 2 THEN "g" ELSE "h"

LinkageName(o) == IF o = 1 THEN "_Zf" ELSE IF o = 2 THEN "_Zg" ELSE "_Zh"

\* the loop of namesForSubprogram, one turn: the entry the turn leaves in e,
\* and whether the loop goes on
followAbstractOrigin(dies, e) ==
    LET ao == dies[e].AbstractOrigin
    IN  IF ao = 0 THEN [e |-> e, break |-> TRUE]
        ELSE IF ao \notin DOMAIN dies THEN [e |-> 0, break |-> TRUE]
        ELSE [e |-> ao, break |-> FALSE]

\* namesForSubprogram after its loop: the subprogram of e is looked up in
\* the index when none was given, and the names are made
namesOf(dies, index, e, spgm) ==
    IF e = 0 THEN [panic |-> TRUE, name |-> "", stableName |-> ""]
    ELSE LET found == IF spgm.nil /\ index[e].in
                      THEN [nil |-> FALSE, Namespace |-> index[e].Namespace]
                      ELSE spgm
             ns == IF found.nil THEN "" ELSE found.Namespace
             name == ns \o DieName(e)
         IN  [panic |-> FALSE, name |-> name,
              stableName |-> IF dies[e].Linkage THEN LinkageName(e) ELSE name]

NamesInit ==
    /\ CpuInit /\ host = FALSE
    /\ obs = ObsIdle /\ elide = ElideIdle /\ build = BuildIdle
    /\ prep = Idle /\ look = Idle /\ wasmbin = Idle /\ vmem = Idle
    /\ pclntab = Idle /\ codemap = Idle /\ walk = Idle /\ memprof = Idle
    /\ parse = Idle /\ fncode = Idle /\ readw = Idle /\ symb = Idle
    /\ adapter = Idle
    /\ \E dies \in [1..MaxDies -> [AbstractOrigin : 0..(MaxDies + 1),
                                   Linkage : BOOLEAN]],
          index \in [1..MaxDies -> {[in |-> FALSE, Namespace |-> ""],
                                    [in |-> TRUE, Namespace |-> ""],
                                    [in |-> TRUE, Namespace |-> "n:"]}],
          e \in 1..MaxDies, given \in BOOLEAN :
          /\ given => index[e].in
          /\ names = [on |-> TRUE, at |-> "loop", dies |-> dies,
                      index |-> index, e0 |-> e, e |-> e,
                      spgm |-> IF given
                               THEN [nil |-> FALSE, Namespace |-> index[e].Namespace]
                               ELSE [nil |-> TRUE, Namespace |-> ""],
                      name |-> "", stableName |-> ""]

\* a turn of the loop that goes to the abstract origin
FollowAbstractOrigin ==
    /\ names.on /\ names.at = "loop"
    /\ ~followAbstractOrigin(names.dies, names.e).break
    /\ names' = [names EXCEPT !.e = followAbstractOrigin(names.dies, names.e).e]
    /\ UNCHANGED << cpuVars, obs, elide, build, prep, look, wasmbin, vmem,
                    pclntab, codemap, walk, memprof, parse, fncode, readw,
                    symb, adapter >>

\* the turn that leaves the loop, and the rest of namesForSubprogram
ResolveNames ==
    /\ names.on /\ names.at = "loop"
    /\ followAbstractOrigin(names.dies, names.e).break
    /\ LET e == followAbstractOrigin(names.dies, names.e).e
           r == namesOf(names.dies, names.index, e, names.spgm)
       IN  names' = [names EXCEPT !.e = e,
                                  !.at = IF r.panic THEN "panic" ELSE "returned",
                                  !.name = r.name, !.stableName = r.stableName]
    /\ UNCHANGED << cpuVars, obs, elide, build, prep, look, wasmbin, vmem,
                    pclntab, codemap, walk, memprof, parse, fncode, readw,
                    symb, adapter >>

NextNames == FollowAbstractOrigin \/ ResolveNames

SpecNames == NamesInit /\ [][NextNames]_vars

\* the call is not suspended
SpecNamesFair == SpecNames /\ WF_vars(NextNames)

\* the names of the entry at which the chain ends: the namespace of the
\* subprogram given, else of the one the index has for that entry
NamesOfTerminal ==
    /\ names.e \in DOMAIN names.dies
    /\ names.dies[names.e].AbstractOrigin = 0
    /\ LET ns == IF ~names.spgm.nil THEN names.spgm.Namespace
                 ELSE IF names.index[names.e].in
                 THEN names.index[names.e].Namespace ELSE ""
       IN  /\ names.name = ns \o DieName(names.e)
           /\ names.stableName = IF names.dies[names.e].Linkage
                                 THEN LinkageName(names.e) ELSE names.name

\* C24: name resolution follows the AttrAbstractOrigin references from entry
\* to entry and ends, for every entry of every DWARF input, at an entry that
\* has no AttrAbstractOrigin; the human name returned is the namespace and the
\* AttrName of that entry, and the stable name its AttrLinkageName when it has
\* one, else the human name.
C24_ResolvesAtTerminal == <>(names.on /\ names.at = "returned" /\ NamesOfTerminal)

\* Whenever namesForSubprogram returns, it returns those names.
C24_NamesWhenReturned == (names.on /\ names.at = "returned") => NamesOfTerminal

\* the chain from entry e ends within k references at an entry without origin
RECURSIVE EndsWithin(_, _, _)
EndsWithin(dies, e, k) ==
    /\ e \in DOMAIN dies
    /\ \/ dies[e].AbstractOrigin = 0
       \/ k > 0 /\ EndsWithin(dies, dies[e].AbstractOrigin, k - 1)

\* It returns for the entries whose chain of origins ends.
C24_ReturnsOnEndingChain ==
    (names.on /\ EndsWithin(names.dies, names.e0, MaxDies))
        ~> (names.at = "returned" /\ NamesOfTerminal)

\* ---------------------------------------------------------------------------
\* pclntabmapper.LocationsForSourceOffset: the program counter that the
\* symbolizer of a module compiled by Go makes up for an offset of the code
\* section, from the function maps of the code map (pclntab.go).
\* ---------------------------------------------------------------------------

\* what parseFnCode finds in a function body: its size in bytes, its blocks
\* as offsets from the start of the body, its jump table and its frame size
\*   two blocks, each the target of one jump
\*   two blocks, the second one the target of the first and the last jump
\*   two blocks, the second one the target of no jump
\*   a body that is not of the expected shape: the empty funcmap
FnShapes ==
    { [size |-> 8, Blocks |-> << << 2, 5 >>, << 5, 8 >> >>, Jumps |-> << 0, 1 >>,
       Frame |-> 16],
      [size |-> 8, Blocks |-> << << 2, 5 >>, << 5, 8 >> >>, Jumps |-> << 1, 0, 1 >>,
       Frame |-> 16],
      [size |-> 8, Blocks |-> << << 2, 5 >>, << 5, 8 >> >>, Jumps |-> << 0 >>,
       Frame |-> 0],
      [size |-> 3, Blocks |-> << >>, Jumps |-> << >>, Frame |-> 0] }

\* the offset at which the body of the function at index i (from 1) starts:
\* one byte for the count of the section, then one byte for the size of each
\* function before its body
RECURSIVE FnStart(_, _)
FnStart(shapes, i) ==
    IF i = 1 THEN 2 ELSE FnStart(shapes, i - 1) + shapes[i - 1].size + 1

\* buildCodemap with the function maps in full: the function at index i has
\* Id = i + importsCount, Start and End are the offsets of its body in the
\* code section, and parseFnCode was given Start to place the blocks
codemapOf(importsCount, shapes) ==
    [imports |-> importsCount,
     fnmaps  |-> [i \in 1..Len(shapes) |->
                    LET s == FnStart(shapes, i)
                    IN  [Id |-> (i - 1) + importsCount,
                         Start |-> s,
                         End |-> s + shapes[i].size,
                         Frame |-> shapes[i].Frame,
                         Jumps |-> shapes[i].Jumps,
                         Blocks |-> [k \in 1..Len(shapes[i].Blocks) |->
                                       << s + shapes[i].Blocks[k][1],
                                          s + shapes[i].Blocks[k][2] >>]]]]

\* the least element of a non-empty set of numbers
First(S) == CHOOSE x \in S : \A y \in S : x <= y

\* the function maps whose range holds the offset (indices from 1)
FnMatches(c, offset) ==
    { i \in DOMAIN c.fnmaps :
         c.fnmaps[i].Start <= offset /\ offset < c.fnmaps[i].End }

\* the blocks of f that hold the offset (block numbers from 0)
BlockMatches(f, offset) ==
    { k - 1 : k \in { j \in DOMAIN f.Blocks :
                         f.Blocks[j][1] <= offset /\ offset < f.Blocks[j][2] } }

\* the PC_B values whose jump goes to the block
JumpsTo(f, blockNum) == { x - 1 : x \in { j \in DOMAIN f.Jumps : f.Jumps[j] = blockNum } }

\* pc = pcF | pcB with pcF := (funcValueOffset + uint64(f.Id)) << 16
synthesize(c, f, pcB) == Shl16(funcValueOffset + f.Id) + pcB

\* the loop of LocationsForSourceOffset: the program counter handed to
\* PCToLine, or the return before it
sourceOffsetPC(c, offset) ==
    LET ms == FnMatches(c, offset)
        none == [out |-> "pc", at |-> 0, f |-> 0, blockNum |-> -1, pcB |-> 0]
    IN  IF ms = {} THEN none
        ELSE LET idx == First(ms)
                 f == c.fnmaps[idx]
                 bs == BlockMatches(f, offset)
             IN  IF ms # {idx} THEN [none EXCEPT !.out = "panic", !.f = idx]
                 ELSE IF bs = {} THEN [none EXCEPT !.out = "nil", !.f = idx]
                 ELSE LET blockNum == First(bs)
                          js == JumpsTo(f, blockNum)
                          pcB == IF js = {} THEN Len(f.Blocks) ELSE First(js)
                      IN  [out |-> "pc", at |-> synthesize(c, f, pcB), f |-> idx,
                           blockNum |-> blockNum, pcB |-> pcB]

\* the offsets asked for: every offset of the section and one beyond it
SourceOffsets(c) == 0..(c.fnmaps[Len(c.fnmaps)].End)

SymbInit ==
    /\ CpuInit /\ host = FALSE
    /\ obs = ObsIdle /\ elide = ElideIdle /\ build = BuildIdle
    /\ prep = Idle /\ look = Idle /\ wasmbin = Idle /\ vmem = Idle
    /\ pclntab = Idle /\ codemap = Idle /\ walk = Idle /\ memprof = Idle
    /\ parse = Idle /\ fncode = Idle /\ readw = Idle /\ names = Idle
    /\ adapter = Idle
    /\ \E importsCount \in 0..MaxImports, n \in 1..MaxFuncs :
       \E shapes \in [1..n -> FnShapes] :
       \E offset \in SourceOffsets(codemapOf(importsCount, shapes)) :
          symb = [on |-> TRUE, done |-> FALSE,
                  m |-> codemapOf(importsCount, shapes),
                  offset |-> offset,
                  r |-> [out |-> "", at |-> 0, f |-> 0, blockNum |-> -1, pcB |-> 0],
                  Locations |-> << >>]

\* LocationsForSourceOffset(offset): p.t.PCToLine(pc) finds a function for
\* the program counter or does not; with one, the location returned has the
\* program counter as its SourceOffset
LocationsForSourceOffset ==
    /\ symb.on /\ ~symb.done
    /\ LET r == sourceOffsetPC(symb.m, symb.offset)
       IN  \E fn \in BOOLEAN :
              symb' = [symb EXCEPT
                          !.done = TRUE,
                          !.r = r,
                          !.Locations = IF r.out = "pc" /\ fn
                                        THEN << [SourceOffset |-> r.at] >>
                                        ELSE << >>]
    /\ UNCHANGED << cpuVars, obs, elide, build, prep, look, wasmbin, vmem,
                    pclntab, codemap, walk, memprof, parse, fncode, readw,
                    names, adapter >>

NextSymb == LocationsForSourceOffset

SpecSymb == SymbInit /\ [][NextSymb]_vars

\* the call has made up a program counter for an offset inside a function
Synthesized == symb.on /\ symb.done /\ symb.r.out = "pc" /\ symb.r.f # 0

\* C29: for every function f of the code map and every imports count, the
\* program counter made up for an offset of the code section inside f has
\* the function field of the stack walker's program counter for f,
\* (pc >> 16) = 0x1000 + f.Id - imports = FindPCF(f.Id) >> 16, and its low
\* 16 bits are the first index of the jump table whose target is the block
\* that holds the offset.
C29_SamePCFAsFindPCF ==
    Synthesized =>
        LET f == symb.m.fnmaps[symb.r.f]
        IN  /\ Shr16(symb.r.at) = funcValueOffset + f.Id - symb.m.imports
            /\ Shr16(symb.r.at) = Shr16(FindPCF(symb.m, f.Id))
            /\ JumpsTo(f, symb.r.blockNum) # {} =>
                  symb.r.at - ClearPCB(symb.r.at) = First(JumpsTo(f, symb.r.blockNum))

\* The function field is 0x1000 + f.Id, which is FindPCF's exactly when the
\* module imports no function; the low 16 bits are the first index of the
\* jump table that goes to the block of the offset, and the number of blocks
\* when no jump goes there.
C29_PCFWithoutImports ==
    Synthesized =>
        LET f == symb.m.fnmaps[symb.r.f]
            js == JumpsTo(f, symb.r.blockNum)
        IN  /\ Shr16(symb.r.at) = funcValueOffset + f.Id
            /\ (Shr16(symb.r.at) = Shr16(FindPCF(symb.m, f.Id))) <=> (symb.m.imports = 0)
            /\ symb.r.at - ClearPCB(symb.r.at) =
                  (IF js = {} THEN Len(f.Blocks) ELSE First(js))
            /\ symb.r.blockNum \in BlockMatches(f, symb.offset)

\* a program counter was made up for an offset in the second block of a
\* function whose jump table goes there first, in a module with imports
C29_Reached ==
    /\ Synthesized
    /\ symb.m.imports > 0
    /\ symb.r.blockNum = 1 /\ symb.r.pcB = 0
    /\ symb.Locations # << >>

\* ---------------------------------------------------------------------------
\* lrtAdapter.Before on a module compiled by Go: every guest call has its
\* stack iterator made by the one goStackIteratorMaker of the Runtime, which
\* initialises its embedded goStackIterator and returns itself.  Guest calls
\* on different host threads run on different instances of the module.
\* ---------------------------------------------------------------------------

\* what a guest call finds in its instance: global 0, global 2 and the index
\* of the function called
StackPointers == {8, 16}
TaskPointers == {32, 64}
FunctionIndexes == {0, 1}

\* the instance on which each host thread runs its guest call
InstanceOf(t) == IF t = "t1" THEN "i1" ELSE "i2"

\* the state from which the stack of the call of thread t is to be walked
OwnState(t) ==
    [mem |-> InstanceOf(t),
     at  |-> pcForFID(goStackIteratorMaker, adapter.call[t].index),
     sp  |-> adapter.call[t].sp0,
     gp  |-> adapter.call[t].gp0]

\* the goStackIterator embedded in the maker, as PrepareModule leaves it
NoIterator == [mem |-> "", at |-> 0, sp |-> 0, gp |-> 0]

AdapterInit ==
    /\ CpuInit /\ host = FALSE
    /\ obs = ObsIdle /\ elide = ElideIdle /\ build = BuildIdle
    /\ prep = Idle /\ look = Idle /\ wasmbin = Idle /\ vmem = Idle
    /\ pclntab = Idle /\ codemap = Idle /\ walk = Idle /\ memprof = Idle
    /\ parse = Idle /\ fncode = Idle /\ readw = Idle /\ names = Idle
    /\ symb = Idle
    /\ \E cs \in [Threads -> [sp0 : StackPointers, gp0 : TaskPointers,
                              index : FunctionIndexes]] :
          adapter = [on |-> TRUE,
                     g |-> NoIterator,
                     at |-> [t \in Threads |-> "idle"],
                     call |-> cs,
                     alone |-> [t \in Threads |-> TRUE],
                     walked |-> [t \in Threads |-> NoIterator]]

\* a write to the maker by thread t: the hooks of the other threads that are
\* between their Make and the end of their walk are no longer alone
Disturbed(t) ==
    [u \in Threads |->
        IF u # t /\ adapter.at[u] \in {"init", "made"} THEN FALSE
        ELSE adapter.alone[u]]

\* lrtAdapter.Before calls Make: g.mem = rtmem{mem}
MakeMem(t) ==
    /\ adapter.on /\ adapter.at[t] = "idle"
    /\ adapter' = [adapter EXCEPT !.g.mem = InstanceOf(t),
                                  !.at[t] = "init",
                                  !.alone = Disturbed(t)]
    /\ UNCHANGED << cpuVars, obs, elide, build, prep, look, wasmbin, vmem,
                    pclntab, codemap, walk, memprof, parse, fncode, readw,
                    names, symb >>

\* Make: sp0, gp0 and pc0 of the call, g.initAt(pc0, sp0, 0, gp0, 0), and
\* return g
MakeInitAt(t) ==
    /\ adapter.on /\ adapter.at[t] = "init"
    /\ adapter' = [adapter EXCEPT !.g.at = OwnState(t).at,
                                  !.g.sp = OwnState(t).sp,
                                  !.g.gp = OwnState(t).gp,
                                  !.at[t] = "made",
                                  !.alone = Disturbed(t)]
    /\ UNCHANGED << cpuVars, obs, elide, build, prep, look, wasmbin, vmem,
                    pclntab, codemap, walk, memprof, parse, fncode, readw,
                    names, symb >>

\* a.l.Before(ctx, mod, def, params, si): the listener builds its stack
\* trace from the iterator it was given, which is the maker
ListenerBefore(t) ==
    /\ adapter.on /\ adapter.at[t] = "made"
    /\ adapter' = [adapter EXCEPT !.walked[t] = adapter.g,
                                  !.at[t] = "done"]
    /\ UNCHANGED << cpuVars, obs, elide, build, prep, look, wasmbin, vmem,
                    pclntab, codemap, walk, memprof, parse, fncode, readw,
                    names, symb >>

NextAdapter == \E t \in Threads : MakeMem(t) \/ MakeInitAt(t) \/ ListenerBefore(t)

SpecAdapter == AdapterInit /\ [][NextAdapter]_vars

\* C30: when the adapter's Before hooks of two guest calls run at once on
\* different host threads, each call's stack is walked from that call's own
\* initial state (its sp from global 0, its task pointer from global 2, its
\* pc from its function index), never from iterator state initialised by
\* the other call.
C30_WalkedFromOwnState ==
    \A t \in Threads :
        (adapter.on /\ adapter.at[t] = "done") => adapter.walked[t] = OwnState(t)

\* a call whose hook no other thread's Make has run into is walked from its
\* own initial state
C30_OwnStateWhenAlone ==
    \A t \in Threads :
        (adapter.on /\ adapter.at[t] = "done" /\ adapter.alone[t])
            => adapter.walked[t] = OwnState(t)

\* both calls were walked, one after the other, each from its own state
C30_Reached ==
    /\ adapter.on
    /\ \A t \in Threads : adapter.at[t] = "done" /\ adapter.alone[t]
    /\ OwnState("t1").sp # OwnState("t2").sp
====
